---- MODULE Spec2Model ----
(***************************************************************************)
(* The Nachos file system of nthu-nachos: the free-sector bitmap, the      *)
(* multi-level file header, the directory table with absolute paths, and   *)
(* the FileSystem operations Create, CreateDirectory, Remove and           *)
(* RemoveRecursively.                                                      *)
(*                                                                         *)
(* Lengths are counted in units of one DirectoryEntry record, so that a    *)
(* directory table of NumDirEntries entries is a file of NumDirEntries     *)
(* units and a sector holds SectorSize units.                              *)
(***************************************************************************)
EXTENDS Integers, Sequences, FiniteSets, TLC

\* ---------------------------------------------------------------- bounds
NumSectors == 10        \* sectors of the disk
SectorSize == 2         \* units per sector
NumDirect == 2          \* sector-number slots of one file header (F)
NumDirEntries == 2      \* entries of one directory table
MaxOps == 3             \* operations of one run
MaxByteLength == 9      \* largest length asked of AllocateMultiLevel alone
MaxLevel == 4           \* deepest header tree (FourLevelMaxFileSize)

\* ------------------------------------------------------- program constants
FreeMapSector == 0
DirectorySector == 1
FreeMapFileSize == NumSectors \div 8
DirectoryFileSize == NumDirEntries

Sector == 0 .. (NumSectors - 1)

\* ---------------------------------------------------------------- helpers
DivCeil(a, b) == (a + b - 1) \div b

Min(a, b) == IF a < b THEN a ELSE b

RECURSIVE Pow(_, _)
Pow(b, e) == IF e = 0 THEN 1 ELSE b * Pow(b, e - 1)

Range(s) == {s[i] : i \in DOMAIN s}

\* F applied to the value of e, which is computed once.
Bind(e, F(_)) == CHOOSE r \in {F(x) : x \in {e}} : TRUE

\* ------------------------------------------------------------------ Bitmap
\* An in-memory bitmap is the set of sectors marked used.
Mark(bm, which) == bm \cup {which}

Clear(bm, which) == bm \ {which}

Test(bm, which) == which \in bm

NumClear(bm) == NumSectors - Cardinality(bm)

\* The sector FindAndSet returns: the first clear bit, or -1.
FindFree(bm) ==
  IF bm = Sector THEN -1
  ELSE CHOOSE s \in Sector \ bm : \A t \in Sector \ bm : s <= t

FindAndSet(bm) ==
  LET s == FindFree(bm)
  IN  [sector |-> s, bm |-> IF s = -1 THEN bm ELSE Mark(bm, s)]

\* ------------------------------------------------------------ sector contents
\* A sector holds zero bytes, a file header, SectorSize directory-entry
\* cells, or bits of the bitmap file.  Zero bytes read as cells are
\* SectorSize entries not in use; read as a header they are ZeroHdr.
ZeroEntry == [inUse |-> FALSE, isDirectory |-> FALSE, name |-> << >>, sector |-> 0]

ZeroCells == [i \in 1 .. SectorSize |-> ZeroEntry]

ZeroSector == [kind |-> "zero"]

HasCells(c) == c.kind \in {"zero", "cells"}

CellsOf(c) == IF c.kind = "cells" THEN c.cells ELSE ZeroCells

CellSector(cells) ==
  IF cells = ZeroCells THEN ZeroSector ELSE [kind |-> "cells", cells |-> cells]

HdrSector(h) == [kind |-> "hdr", hdr |-> h]

MapSector == [kind |-> "map"]

ZeroHdr == [numBytes |-> 0, numSectors |-> 0, level |-> 0, dataSectors |-> << >>]

\* FileHeader::FetchFrom : the header a sector is read as.
IsHdrAt(secs, s) == s \in Sector /\ secs[s].kind \in {"hdr", "zero"}

FetchHdr(secs, s) == IF secs[s].kind = "hdr" THEN secs[s].hdr ELSE ZeroHdr

\* ------------------------------------------------------------- FileHeader
\* Bytes one slot of a header of level k stands for.
SlotBytes(level) == Pow(NumDirect, level - 1) * SectorSize

\* OneLevelMaxFileSize .. FourLevelMaxFileSize for headers of numDirect
\* slots and sectors of sectorSize bytes.
Capacity(numDirect, sectorSize, level) == Pow(numDirect, level) * sectorSize

LevelMaxFileSize(level) == Capacity(NumDirect, SectorSize, level)

\* A choice of the level that takes the next level for a length equal to a
\* capacity: what C12 rules out.
RECURSIVE LevelFromStrict(_, _, _, _)
LevelFromStrict(numDirect, sectorSize, k, fileSize) ==
  IF k >= MaxLevel \/ Capacity(numDirect, sectorSize, k) > fileSize THEN k
  ELSE LevelFromStrict(numDirect, sectorSize, k + 1, fileSize)

\* The level AllocateMultiLevel takes: the first, from k on, whose capacity
\* holds fileSize bytes.
RECURSIVE LevelFrom(_, _, _, _)
LevelFrom(numDirect, sectorSize, k, fileSize) ==
  IF k >= MaxLevel \/ Capacity(numDirect, sectorSize, k) >= fileSize THEN k
  ELSE LevelFrom(numDirect, sectorSize, k + 1, fileSize)

LevelFor(fileSize) == LevelFrom(NumDirect, SectorSize, 1, fileSize)

\* Slots a header of this level uses for numBytes bytes.
SlotsUsed(level, numBytes) ==
  IF level < 1 \/ numBytes <= 0 THEN 0 ELSE DivCeil(numBytes, SlotBytes(level))

\* Bytes under slot i of a header of numBytes bytes: all slots but the
\* rightmost are full.
BytesOfSlot(level, numBytes, i) ==
  IF i < SlotsUsed(level, numBytes) THEN SlotBytes(level)
  ELSE numBytes - (i - 1) * SlotBytes(level)

\* Sectors of the whole tree (index and data sectors) for numBytes bytes.
RECURSIVE SectorNeeds(_, _)
SectorNeeds(level, numBytes) ==
  IF level = 1 THEN SlotsUsed(1, numBytes)
  ELSE LET n == SlotsUsed(level, numBytes)
           full == SectorNeeds(level - 1, SlotBytes(level))
           last == SectorNeeds(level - 1, BytesOfSlot(level, numBytes, n))
       IN  IF n = 0 THEN 0 ELSE n + (n - 1) * full + last

\* RecursivelyAllocate: claim the sectors of a tree of the given level, slot
\* by slot from the left; a child header is written to its own sector.
RECURSIVE AllocSlots(_, _, _, _, _, _), AllocNode(_, _, _, _)
\* A RecursivelyAllocate whose header counts its own slots only: what C21
\* rules out.
AllocNodeCountsSlots(bm, secs, level, numBytes) ==
  Bind(AllocSlots(bm, secs, level, numBytes, 1, << >>), LAMBDA r :
    [ok |-> r.ok, bm |-> r.bm, secs |-> r.secs,
     hdr |-> [numBytes |-> numBytes, numSectors |-> Len(r.slots),
              level |-> level, dataSectors |-> r.slots]])

AllocNode(bm, secs, level, numBytes) ==
  Bind(AllocSlots(bm, secs, level, numBytes, 1, << >>), LAMBDA r :
    [ok |-> r.ok, bm |-> r.bm, secs |-> r.secs,
     hdr |-> [numBytes |-> numBytes, numSectors |-> r.count,
              level |-> level, dataSectors |-> r.slots]])

AllocSlots(bm, secs, level, numBytes, i, slots) ==
  IF i > SlotsUsed(level, numBytes)
  THEN [ok |-> TRUE, bm |-> bm, secs |-> secs, slots |-> slots, count |-> 0]
  ELSE
  Bind(FindAndSet(bm), LAMBDA f :
    IF f.sector = -1
    THEN [ok |-> FALSE, bm |-> bm, secs |-> secs, slots |-> slots, count |-> 0]
    ELSE IF level = 1
    THEN Bind(AllocSlots(f.bm, secs, level, numBytes, i + 1, Append(slots, f.sector)),
              LAMBDA rest : [rest EXCEPT !.count = @ + 1])
    ELSE
    Bind(BytesOfSlot(level, numBytes, i), LAMBDA under :
    Bind(AllocNode(f.bm, secs, level - 1, under), LAMBDA c :
      IF ~c.ok
      THEN [ok |-> FALSE, bm |-> bm, secs |-> secs, slots |-> slots, count |-> 0]
      ELSE
      Bind([c.secs EXCEPT ![f.sector] = HdrSector(c.hdr)], LAMBDA written :
      Bind(AllocSlots(c.bm, written, level, numBytes, i + 1, Append(slots, f.sector)),
           LAMBDA rest : [rest EXCEPT !.count = @ + 1 + c.hdr.numSectors])))))

\* An AllocateMultiLevel that hands back the bitmap as the failed recursion
\* left it: what C7 rules out.
AllocateKeepsClaims(bm, secs, fileSize) ==
  AllocNode(bm, secs, LevelFor(fileSize), fileSize)

\* FileHeader::AllocateMultiLevel: FALSE, with the bitmap as it was, when the
\* bitmap cannot hold the tree.
AllocateMultiLevel(bm, secs, fileSize) ==
  Bind(AllocNode(bm, secs, LevelFor(fileSize), fileSize), LAMBDA r :
    IF r.ok THEN r
    ELSE [ok |-> FALSE, bm |-> bm, secs |-> secs, hdr |-> r.hdr])

\* FileHeader::DeallocateMultiLevel: clear every sector of the tree under
\* hdr.  trail lists the sectors in the order they were cleared; bad is set
\* when a sector to clear was already clear or a child is not a header.
RECURSIVE DeallocSlots(_, _, _, _, _), DeallocNode(_, _, _, _)
DeallocNode(bm, secs, hdr, fuel) ==
  DeallocSlots(bm, secs, hdr, 1, fuel)

DeallocSlots(bm, secs, hdr, i, fuel) ==
  IF i > Min(SlotsUsed(hdr.level, hdr.numBytes), Len(hdr.dataSectors))
  THEN [bm |-> bm, trail |-> << >>, bad |-> FALSE]
  ELSE
  Bind(hdr.dataSectors[i], LAMBDA s :
  Bind(IF hdr.level <= 1 THEN [bm |-> bm, trail |-> << >>, bad |-> FALSE]
       ELSE IF fuel = 0 \/ ~IsHdrAt(secs, s)
       THEN [bm |-> bm, trail |-> << >>, bad |-> TRUE]
       ELSE Bind(FetchHdr(secs, s), LAMBDA child :
                   DeallocNode(bm, secs, child, fuel - 1)), LAMBDA sub :
  Bind(Clear(sub.bm, s), LAMBDA cleared :
  Bind(DeallocSlots(cleared, secs, hdr, i + 1, fuel), LAMBDA rest :
    [bm |-> rest.bm,
     trail |-> sub.trail \o <<s>> \o rest.trail,
     bad |-> sub.bad \/ rest.bad \/ ~Test(sub.bm, s)]))))

\* A DeallocateMultiLevel that clears the slots of the top header only and
\* never descends: what C4 rules out.
DeallocateTopLevel(bm, secs, hdr) ==
  [bm |-> bm \ Range(hdr.dataSectors), trail |-> hdr.dataSectors, bad |-> FALSE]

DeallocateMultiLevel(bm, secs, hdr) == DeallocNode(bm, secs, hdr, MaxLevel)

\* ---------------------------------------------------------------- OpenFile
\* An open file is the header read from its sector when it was opened.
\* ByteToSector: the sector holding the unit at this offset of the file.
\* A ByteToSector that hands the whole offset down to the child header: what
\* C13 rules out.
RECURSIVE ByteToSectorWholeOffset(_, _, _, _)
ByteToSectorWholeOffset(secs, hdr, offset, fuel) ==
  LET i == (offset \div SlotBytes(hdr.level)) + 1
  IN  IF hdr.level < 1 \/ i > Len(hdr.dataSectors) THEN -1
      ELSE IF hdr.level = 1 THEN hdr.dataSectors[i]
      ELSE IF fuel = 0 \/ ~IsHdrAt(secs, hdr.dataSectors[i]) THEN -1
      ELSE ByteToSectorWholeOffset(secs, FetchHdr(secs, hdr.dataSectors[i]), offset,
                                   fuel - 1)

RECURSIVE ByteToSector(_, _, _, _)
ByteToSector(secs, hdr, offset, fuel) ==
  Bind((offset \div SlotBytes(hdr.level)) + 1, LAMBDA i :
    IF hdr.level < 1 \/ i > Len(hdr.dataSectors) THEN -1
    ELSE IF hdr.level = 1 THEN hdr.dataSectors[i]
    ELSE IF fuel = 0 \/ ~IsHdrAt(secs, hdr.dataSectors[i]) THEN -1
    ELSE Bind(FetchHdr(secs, hdr.dataSectors[i]), LAMBDA child :
           Bind(offset % SlotBytes(hdr.level), LAMBDA within :
             ByteToSector(secs, child, within, fuel - 1))))

\* Units of a table that a file of this header can hold (ReadAt and WriteAt
\* stop at the end of the file).
TableUnits(hdr) ==
  IF hdr.numBytes <= 0 THEN 0 ELSE Min(hdr.numBytes, DirectoryFileSize)

\* TRUE when every unit of the table lies in a sector of entry cells, so
\* that reading it as DirectoryEntry records is defined by this model.
CellsReadable(secs, hdr) ==
  \A k \in 0 .. (TableUnits(hdr) - 1) :
     LET s == ByteToSector(secs, hdr, k, MaxLevel)
     IN  s \in Sector /\ HasCells(secs[s])

\* ------------------------------------------------------------- Directory
\* Directory::Directory : a table of NumDirEntries unused entries.
NewTable == [i \in 1 .. NumDirEntries |-> ZeroEntry]

\* Directory::FetchFrom : the file's units overwrite the front of the table.
FetchFrom(secs, table, hdr) ==
  [i \in 1 .. NumDirEntries |->
     IF i <= TableUnits(hdr)
     THEN CellsOf(secs[ByteToSector(secs, hdr, i - 1, MaxLevel)])[((i - 1) % SectorSize) + 1]
     ELSE table[i]]

\* Directory::WriteBack : the front of the table overwrites the file's units.
WriteBack(secs, table, hdr) ==
  [s \in Sector |->
     LET ks == {k \in 0 .. (TableUnits(hdr) - 1) :
                  ByteToSector(secs, hdr, k, MaxLevel) = s}
     IN  IF ks = {} THEN secs[s]
         ELSE CellSector([j \in 1 .. SectorSize |->
                            IF \E k \in ks : (k % SectorSize) + 1 = j
                            THEN table[(CHOOSE k \in ks : (k % SectorSize) + 1 = j) + 1]
                            ELSE CellsOf(secs[s])[j]])]

\* TRUE when WriteBack touches only sectors it fills whole or that hold
\* entry cells already.
CellsWritable(secs, hdr) ==
  \A k \in 0 .. (TableUnits(hdr) - 1) :
     LET s == ByteToSector(secs, hdr, k, MaxLevel)
     IN  /\ s \in Sector
         /\ \/ HasCells(secs[s])
            \/ \A j \in 0 .. (SectorSize - 1) :
                 \E k2 \in 0 .. (TableUnits(hdr) - 1) :
                    k2 % SectorSize = j /\ ByteToSector(secs, hdr, k2, MaxLevel) = s

\* A FindIndex that looks at the last slot only: what C15 rules out.
FindIndexLastSlot(table, name) ==
  IF table[NumDirEntries].inUse /\ table[NumDirEntries].name = name
  THEN NumDirEntries ELSE 0

\* Directory::FindIndex : the first entry in use with this name, or -1
\* (0 stands for the C index -1; entries are numbered from 1).
FindIndex(table, name) ==
  IF \E i \in 1 .. NumDirEntries : table[i].inUse /\ table[i].name = name
  THEN CHOOSE i \in 1 .. NumDirEntries :
         /\ table[i].inUse /\ table[i].name = name
         /\ \A j \in 1 .. (i - 1) : ~(table[j].inUse /\ table[j].name = name)
  ELSE 0

\* A Directory::Add without the test for a name already in the table: what
\* C5 rules out.
DirAddAnyName(table, name, newSector, isDirectory) ==
  IF \A i \in 1 .. NumDirEntries : table[i].inUse
  THEN [ok |-> FALSE, table |-> table]
  ELSE LET i == CHOOSE k \in 1 .. NumDirEntries :
                  ~table[k].inUse /\ \A j \in 1 .. (k - 1) : table[j].inUse
       IN  [ok |-> TRUE,
            table |-> [table EXCEPT ![i] = [inUse |-> TRUE, isDirectory |-> isDirectory,
                                            name |-> name, sector |-> newSector]]]

\* A Directory::Add that takes the first slot when none is free: what C14
\* rules out.
DirAddOverwrites(table, name, newSector, isDirectory) ==
  IF FindIndex(table, name) # 0 THEN [ok |-> FALSE, table |-> table]
  ELSE LET i == IF \A k \in 1 .. NumDirEntries : table[k].inUse THEN 1
                ELSE CHOOSE k \in 1 .. NumDirEntries :
                       ~table[k].inUse /\ \A j \in 1 .. (k - 1) : table[j].inUse
       IN  [ok |-> TRUE,
            table |-> [table EXCEPT ![i] = [inUse |-> TRUE, isDirectory |-> isDirectory,
                                            name |-> name, sector |-> newSector]]]

\* Directory::Add
DirAdd(table, name, newSector, isDirectory) ==
  IF FindIndex(table, name) # 0 THEN [ok |-> FALSE, table |-> table]
  ELSE IF \A i \in 1 .. NumDirEntries : table[i].inUse
  THEN [ok |-> FALSE, table |-> table]
  ELSE LET i == CHOOSE k \in 1 .. NumDirEntries :
                  ~table[k].inUse /\ \A j \in 1 .. (k - 1) : table[j].inUse
       IN  [ok |-> TRUE,
            table |-> [table EXCEPT ![i] = [inUse |-> TRUE, isDirectory |-> isDirectory,
                                            name |-> name, sector |-> newSector]]]

\* A Directory::Remove that closes the gap, moving the later entries one slot
\* down: what C26 rules out.
DirRemoveCompacts(table, name) ==
  LET i == FindIndex(table, name)
  IN  IF i = 0 THEN [ok |-> FALSE, table |-> table]
      ELSE [ok |-> TRUE,
            table |-> [j \in 1 .. NumDirEntries |->
                         IF j < i THEN table[j]
                         ELSE IF j < NumDirEntries THEN table[j + 1]
                         ELSE [table[j] EXCEPT !.inUse = FALSE]]]

\* Directory::Remove
DirRemove(table, name) ==
  LET i == FindIndex(table, name)
  IN  IF i = 0 THEN [ok |-> FALSE, table |-> table]
      ELSE [ok |-> TRUE, table |-> [table EXCEPT ![i].inUse = FALSE]]

\* ----------------------------------------------------------- AbsolutePath
\* A path text is a sequence of characters.  AbsolutePath::AbsolutePath:
\* depth is the number of slashes, and name[i] is the text between slash i
\* and the next slash (or the end).
Slashes(text) == {i \in DOMAIN text : text[i] = "/"}

PathDepth(text) == Cardinality(Slashes(text))

NthSlash(text, n) ==
  CHOOSE i \in Slashes(text) : Cardinality({j \in Slashes(text) : j <= i}) = n

PathName(text, n) ==
  LET from == NthSlash(text, n) + 1
      to == IF n = PathDepth(text) THEN Len(text) ELSE NthSlash(text, n + 1) - 1
  IN  SubSeq(text, from, to)

\* [depth, name] as the constructor leaves them; name is indexed from 1.
ParsePath(text) ==
  [depth |-> PathDepth(text),
   name |-> [n \in 1 .. PathDepth(text) |-> PathName(text, n)]]

GetLastName(ap) == ap.name[ap.depth]

\* Directory::FindByAbsolutePath, from the entry name[depth + 1] on.  st is
\* "confused" when a table on the way is not made of entry cells.
RECURSIVE FindByAbsolutePath(_, _, _, _)
FindByAbsolutePath(secs, table, ap, depth) ==
  Bind(FindIndex(table, ap.name[depth + 1]), LAMBDA i :
    IF i = 0 THEN [sector |-> -1, isDirectory |-> FALSE, st |-> "ok"]
    ELSE IF depth = ap.depth - 1
    THEN [sector |-> table[i].sector, isDirectory |-> table[i].isDirectory, st |-> "ok"]
    ELSE IF ~IsHdrAt(secs, table[i].sector)
            \/ ~CellsReadable(secs, FetchHdr(secs, table[i].sector))
    THEN [sector |-> -1, isDirectory |-> FALSE, st |-> "confused"]
    ELSE Bind(FetchFrom(secs, NewTable, FetchHdr(secs, table[i].sector)), LAMBDA sub :
           FindByAbsolutePath(secs, sub, ap, depth + 1)))

\* AbsolutePath::GetSector
GetSector(secs, text, rootDirectory, rootSector) ==
  IF text = <<"/">> THEN [sector |-> rootSector, isDirectory |-> FALSE, st |-> "ok"]
  ELSE Bind(ParsePath(text), LAMBDA ap : FindByAbsolutePath(secs, rootDirectory, ap, 0))

\* The text up to, and without, its last slash.
UpperLevelPath(text) ==
  SubSeq(text, 1, NthSlash(text, PathDepth(text)) - 1)

\* AbsolutePath::GetUpperLevelSector
GetUpperLevelSector(secs, text, rootDirectory, rootSector) ==
  IF PathDepth(text) = 1 THEN [sector |-> rootSector, isDirectory |-> FALSE, st |-> "ok"]
  ELSE Bind(ParsePath(UpperLevelPath(text)), LAMBDA ap :
         FindByAbsolutePath(secs, rootDirectory, ap, 0))

\* Directory::RemoveAll, from entry i on.  st is "crash" when the directories
\* below form a cycle (the recursion never returns), "confused" when a
\* sector on the way is not what it is read as.
RECURSIVE RemoveAllFrom(_, _, _, _, _)
RemoveAllFrom(bm, secs, table, i, fuel) ==
  IF i > NumDirEntries
  THEN [bm |-> bm, st |-> "ok", bad |-> FALSE, trail |-> << >>, table |-> table]
  ELSE IF ~table[i].inUse THEN RemoveAllFrom(bm, secs, table, i + 1, fuel)
  ELSE
  LET e == table[i]
      stop(st) == [bm |-> bm, st |-> st, bad |-> FALSE, trail |-> << >>,
                   table |-> table]
  IN
  Bind(IF ~e.isDirectory THEN stop("ok")
       ELSE IF fuel = 0 THEN stop("crash")
       ELSE IF ~IsHdrAt(secs, e.sector)
               \/ ~CellsReadable(secs, FetchHdr(secs, e.sector))
       THEN stop("confused")
       ELSE Bind(FetchFrom(secs, NewTable, FetchHdr(secs, e.sector)), LAMBDA below :
              RemoveAllFrom(bm, secs, below, 1, fuel - 1)), LAMBDA sub :
    IF sub.st # "ok" THEN stop(sub.st)
    ELSE IF ~IsHdrAt(secs, e.sector) THEN stop("confused")
    ELSE
    Bind(DeallocateMultiLevel(sub.bm, secs, FetchHdr(secs, e.sector)), LAMBDA d :
    Bind(Clear(d.bm, e.sector), LAMBDA cleared :
    Bind([table EXCEPT ![i].inUse = FALSE], LAMBDA dropped :
    Bind(RemoveAllFrom(cleared, secs, dropped, i + 1, fuel), LAMBDA rest :
      [rest EXCEPT
         !.bad = @ \/ sub.bad \/ d.bad \/ ~Test(d.bm, e.sector),
         !.trail = sub.trail \o d.trail \o <<e.sector>> \o @])))))

RemoveAll(bm, secs, table) == RemoveAllFrom(bm, secs, table, 1, NumSectors)

\* ------------------------------------------------------------- FileSystem
\* FileSystem::FileSystem(format = TRUE)
Format ==
  Bind(Mark(Mark({}, FreeMapSector), DirectorySector), LAMBDA freeMap :
  Bind(AllocateMultiLevel(freeMap, [s \in Sector |-> ZeroSector], FreeMapFileSize),
       LAMBDA m :
  Bind(AllocateMultiLevel(m.bm, m.secs, DirectoryFileSize), LAMBDA d :
  Bind([d.secs EXCEPT ![FreeMapSector] = HdrSector(m.hdr),
                      ![DirectorySector] = HdrSector(d.hdr)], LAMBDA hdrs :
  Bind([s \in Sector |->
          IF s \in Range(m.hdr.dataSectors) THEN MapSector ELSE hdrs[s]],
       LAMBDA mapped :
    [ok |-> m.ok /\ d.ok, map |-> d.bm, mapHdr |-> m.hdr, dirHdr |-> d.hdr,
     secs |-> WriteBack(mapped, NewTable, d.hdr)])))))

\* The two files kept open since boot: their headers as read then.
freeMapFile == Format.mapHdr

directoryFile == Format.dirHdr

\* What an operation leaves: its result, the branch of the code that gave
\* it, the disk sectors, the bitmap file, whether it cleared a sector that
\* was already clear, and what it handed back or printed (out).  "Abort" is a failed ASSERT, "Void" the return of
\* a void function, "Confused" a read of a sector as what it does not hold.
Out(res, why, secs, map) ==
  [res |-> res, why |-> why, secs |-> secs, map |-> map, bad |-> FALSE,
   out |-> << >>]

Confused(secs, map) == Out("Confused", "confused", secs, map)

\* A directory file that can be opened and read as a table.
DirReadable(secs, s) == IsHdrAt(secs, s) /\ CellsReadable(secs, FetchHdr(secs, s))

\* A failure return of Create that writes the in-memory bitmap back: what C6
\* rules out.
CreateFailsWritesBitmap(why, secs, map, bm) == Out("FALSE", why, secs, bm)

\* FileSystem::Create, the failure return: the in-memory bitmap bm and the
\* in-memory directory are deleted, nothing is written.
CreateFails(why, secs, map, bm) == Out("FALSE", why, secs, map)

\* FileSystem::Create
Create(secs, map, text, initialSize) ==
  IF ~CellsReadable(secs, directoryFile) THEN Confused(secs, map)
  ELSE
  Bind(FetchFrom(secs, NewTable, directoryFile), LAMBDA root :
  Bind(GetUpperLevelSector(secs, text, root, DirectorySector), LAMBDA up :
    IF up.st # "ok" THEN Confused(secs, map)
    ELSE IF up.sector = -1 THEN Out("Abort", "noParent", secs, map)
    ELSE IF ~DirReadable(secs, up.sector) THEN Confused(secs, map)
    ELSE
    Bind(FetchHdr(secs, up.sector), LAMBDA dirFile :
    Bind(FetchFrom(secs, root, dirFile), LAMBDA directory :
    Bind(GetSector(secs, text, directory, DirectorySector), LAMBDA found :
      IF found.st # "ok" THEN Confused(secs, map)
      ELSE IF found.sector # -1 THEN Out("FALSE", "found", secs, map)
      ELSE
      Bind(FindAndSet(map), LAMBDA f :
        IF f.sector = -1 THEN CreateFails("noHeader", secs, map, f.bm)
        ELSE
        Bind(DirAdd(directory, GetLastName(ParsePath(text)), f.sector, FALSE),
             LAMBDA added :
          IF ~added.ok THEN CreateFails("addFailed", secs, map, f.bm)
          ELSE
          Bind(AllocateMultiLevel(f.bm, secs, initialSize), LAMBDA a :
            IF ~a.ok THEN CreateFails("noData", secs, map, a.bm)
            ELSE
            Bind([a.secs EXCEPT ![f.sector] = HdrSector(a.hdr)], LAMBDA written :
              IF ~CellsWritable(written, dirFile) THEN Confused(secs, map)
              ELSE Out("TRUE", "created",
                       WriteBack(written, added.table, dirFile), a.bm))))))))))

\* FileSystem::Create up to its three write-backs: the result it is going to
\* return and, when that is TRUE, the header sector, the in-memory header,
\* directory and bitmap it is going to write, the open parent file, and the
\* disk as the allocation left it.
Plan(res, why, secs, sector, hdr, table, dirFile, bm) ==
  [res |-> res, why |-> why, secs |-> secs, sector |-> sector, hdr |-> hdr,
   table |-> table, dirFile |-> dirFile, bm |-> bm]

NoPlan(res, why, secs) == Plan(res, why, secs, -1, ZeroHdr, << >>, ZeroHdr, {})

CreatePlan(secs, map, text, initialSize) ==
  IF ~CellsReadable(secs, directoryFile) THEN NoPlan("Confused", "confused", secs)
  ELSE
  Bind(FetchFrom(secs, NewTable, directoryFile), LAMBDA root :
  Bind(GetUpperLevelSector(secs, text, root, DirectorySector), LAMBDA up :
    IF up.st # "ok" THEN NoPlan("Confused", "confused", secs)
    ELSE IF up.sector = -1 THEN NoPlan("Abort", "noParent", secs)
    ELSE IF ~DirReadable(secs, up.sector) THEN NoPlan("Confused", "confused", secs)
    ELSE
    Bind(FetchHdr(secs, up.sector), LAMBDA dirFile :
    Bind(FetchFrom(secs, root, dirFile), LAMBDA directory :
    Bind(GetSector(secs, text, directory, DirectorySector), LAMBDA found :
      IF found.st # "ok" THEN NoPlan("Confused", "confused", secs)
      ELSE IF found.sector # -1 THEN NoPlan("FALSE", "found", secs)
      ELSE
      Bind(FindAndSet(map), LAMBDA f :
        IF f.sector = -1 THEN NoPlan("FALSE", "noHeader", secs)
        ELSE
        Bind(DirAdd(directory, GetLastName(ParsePath(text)), f.sector, FALSE),
             LAMBDA added :
          IF ~added.ok THEN NoPlan("FALSE", "addFailed", secs)
          ELSE
          Bind(AllocateMultiLevel(f.bm, secs, initialSize), LAMBDA a :
            IF ~a.ok THEN NoPlan("FALSE", "noData", secs)
            ELSE IF ~CellsWritable([a.secs EXCEPT ![f.sector] = HdrSector(a.hdr)], dirFile)
            THEN NoPlan("Confused", "confused", secs)
            ELSE Plan("TRUE", "created", a.secs, f.sector, a.hdr, added.table,
                      dirFile, a.bm)))))))))

\* FileSystem::CreateDirectory.  The new header and the empty table are on
\* disk before the parent is looked up; the result of Add is not read.
CreateDirectory(secs, map, text) ==
  IF ~CellsReadable(secs, directoryFile) THEN Confused(secs, map)
  ELSE
  Bind(FetchFrom(secs, NewTable, directoryFile), LAMBDA root :
  Bind(GetSector(secs, text, root, DirectorySector), LAMBDA found :
    IF found.st # "ok" THEN Confused(secs, map)
    ELSE IF found.sector # -1 THEN Out("Abort", "found", secs, map)
    ELSE
    Bind(FindAndSet(map), LAMBDA f :
      IF f.sector = -1 THEN Out("Abort", "noHeader", secs, map)
      ELSE
      Bind(AllocateMultiLevel(f.bm, secs, DirectoryFileSize), LAMBDA a :
        IF ~a.ok THEN Out("Abort", "noData", secs, map)
        ELSE
        Bind([a.secs EXCEPT ![f.sector] = HdrSector(a.hdr)], LAMBDA withHdr :
          IF ~CellsWritable(withHdr, a.hdr) THEN Confused(secs, map)
          ELSE
          Bind(WriteBack(withHdr, NewTable, a.hdr), LAMBDA fresh :
          Bind(GetUpperLevelSector(fresh, text, root, DirectorySector), LAMBDA up :
            IF up.st # "ok" THEN Confused(secs, map)
            ELSE IF up.sector = -1 THEN Out("Abort", "noParent", fresh, map)
            ELSE IF ~DirReadable(fresh, up.sector) THEN Confused(secs, map)
            ELSE
            Bind(FetchHdr(fresh, up.sector), LAMBDA dirFile :
            Bind(FetchFrom(fresh, root, dirFile), LAMBDA directory :
            Bind(DirAdd(directory, GetLastName(ParsePath(text)), f.sector, TRUE),
                 LAMBDA added :
              IF ~CellsWritable(fresh, dirFile) THEN Confused(secs, map)
              ELSE Out("Void", IF added.ok THEN "created" ELSE "addFailed",
                       WriteBack(fresh, added.table, dirFile), a.bm)))))))))))

\* FileSystem::Remove
Remove(secs, map, text) ==
  IF ~CellsReadable(secs, directoryFile) THEN Confused(secs, map)
  ELSE
  Bind(FetchFrom(secs, NewTable, directoryFile), LAMBDA root :
  Bind(GetSector(secs, text, root, DirectorySector), LAMBDA target :
  Bind(GetUpperLevelSector(secs, text, root, DirectorySector), LAMBDA up :
    IF target.st # "ok" \/ up.st # "ok" THEN Confused(secs, map)
    ELSE IF up.sector = -1 THEN Out("Abort", "noParent", secs, map)
    ELSE IF ~DirReadable(secs, up.sector) THEN Confused(secs, map)
    ELSE IF target.sector = -1 THEN Out("FALSE", "notFound", secs, map)
    ELSE IF ~IsHdrAt(secs, target.sector) THEN Confused(secs, map)
    ELSE
    Bind(FetchHdr(secs, up.sector), LAMBDA dirFile :
    Bind(FetchFrom(secs, root, dirFile), LAMBDA directory :
    Bind(DeallocateMultiLevel(map, secs, FetchHdr(secs, target.sector)), LAMBDA d :
    Bind(DirRemove(directory, GetLastName(ParsePath(text))), LAMBDA removed :
      IF ~CellsWritable(secs, dirFile) THEN Confused(secs, map)
      ELSE [res |-> "TRUE", why |-> "removed",
            secs |-> WriteBack(secs, removed.table, dirFile),
            map |-> Clear(d.bm, target.sector),
            bad |-> d.bad \/ ~Test(d.bm, target.sector),
            out |-> << >>])))))))

\* FileSystem::RemoveRecursively.  The directory branch ends without a
\* return statement: its result is "NoValue".
RemoveRecursively(secs, map, text) ==
  IF ~CellsReadable(secs, directoryFile) THEN Confused(secs, map)
  ELSE
  Bind(FetchFrom(secs, NewTable, directoryFile), LAMBDA root :
  Bind(FindByAbsolutePath(secs, root, ParsePath(text), 0), LAMBDA target :
  Bind(GetUpperLevelSector(secs, text, root, DirectorySector), LAMBDA up :
    IF target.st # "ok" \/ up.st # "ok" THEN Confused(secs, map)
    ELSE IF target.sector = -1 THEN Out("Abort", "notFound", secs, map)
    ELSE IF ~target.isDirectory THEN Remove(secs, map, text)
    ELSE IF ~DirReadable(secs, target.sector) THEN Confused(secs, map)
    ELSE
    Bind(FetchHdr(secs, target.sector), LAMBDA dirFile :
    Bind(FetchFrom(secs, root, dirFile), LAMBDA directory :
    Bind(RemoveAll(map, secs, directory), LAMBDA all :
      IF all.st = "crash" THEN Out("Crash", "cycle", secs, map)
      ELSE IF all.st # "ok" \/ ~DirReadable(secs, up.sector)
      THEN Confused(secs, map)
      ELSE
      Bind(DeallocateMultiLevel(all.bm, secs, dirFile), LAMBDA d :
      Bind(FetchHdr(secs, up.sector), LAMBDA writeBackFile :
      Bind(FetchFrom(secs, all.table, writeBackFile), LAMBDA parent :
      Bind(DirRemove(parent, GetLastName(ParsePath(text))), LAMBDA removed :
        IF ~CellsWritable(secs, writeBackFile) THEN Confused(secs, map)
        ELSE [res |-> "NoValue", why |-> "removedAll",
              secs |-> WriteBack(secs, removed.table, writeBackFile),
              map |-> Clear(d.bm, target.sector),
              bad |-> all.bad \/ d.bad \/ ~Test(d.bm, target.sector),
              out |-> << >>]))))))))))

\* FileSystem::Open: a handle on the sector the path resolves to, or NULL.
\* out is the sector the handle is bound to.
Open(secs, map, text) ==
  IF ~CellsReadable(secs, directoryFile) THEN Confused(secs, map)
  ELSE
  Bind(FetchFrom(secs, NewTable, directoryFile), LAMBDA root :
  Bind(GetSector(secs, text, root, DirectorySector), LAMBDA found :
    IF found.st # "ok" THEN Confused(secs, map)
    ELSE IF found.sector >= 0
    THEN [Out("Handle", "found", secs, map) EXCEPT !.out = <<found.sector>>]
    ELSE Out("NULL", "notFound", secs, map)))

\* One line of a listing: the depth of the indent, the tag printed before
\* the name ("" when none is printed) and the name.
Line(depth, tag, name) == [depth |-> depth, tag |-> tag, name |-> name]

\* Directory::List
DirList(table) ==
  LET RECURSIVE from(_)
      from(i) == IF i > NumDirEntries THEN << >>
                 ELSE IF ~table[i].inUse THEN from(i + 1)
                 ELSE <<Line(0, "", table[i].name)>> \o from(i + 1)
  IN  from(1)

\* Directory::RecursivelyList, from entry i on.  st is "crash" when the
\* directories below form a cycle, "confused" when a sector on the way is
\* not what it is read as.
RECURSIVE RecursivelyListFrom(_, _, _, _, _)
RecursivelyListFrom(secs, table, depth, i, fuel) ==
  IF i > NumDirEntries THEN [st |-> "ok", lines |-> << >>]
  ELSE IF ~table[i].inUse THEN RecursivelyListFrom(secs, table, depth, i + 1, fuel)
  ELSE
  Bind(table[i], LAMBDA e :
  Bind(IF ~e.isDirectory THEN [st |-> "ok", lines |-> << >>]
       ELSE IF fuel = 0 THEN [st |-> "crash", lines |-> << >>]
       ELSE IF ~DirReadable(secs, e.sector) THEN [st |-> "confused", lines |-> << >>]
       ELSE Bind(FetchFrom(secs, NewTable, FetchHdr(secs, e.sector)), LAMBDA below :
              RecursivelyListFrom(secs, below, depth + 1, 1, fuel - 1)), LAMBDA sub :
    IF sub.st # "ok" THEN sub
    ELSE
    Bind(RecursivelyListFrom(secs, table, depth, i + 1, fuel), LAMBDA rest :
      [st |-> rest.st,
       lines |-> <<Line(depth, IF e.isDirectory THEN "[D]" ELSE "[F]", e.name)>>
                   \o sub.lines \o rest.lines])))

RecursivelyList(secs, table, depth) ==
  RecursivelyListFrom(secs, table, depth, 1, NumSectors)

\* Directory::ListRecursively, which FileSystem::List calls.
ListRecursively(secs, table, depth) == RecursivelyList(secs, table, depth)

\* FileSystem::List.  out is the lines printed.
List(secs, map, text, isRecursive) ==
  IF ~CellsReadable(secs, directoryFile) THEN Confused(secs, map)
  ELSE
  Bind(FetchFrom(secs, NewTable, directoryFile), LAMBDA root :
  Bind(GetSector(secs, text, root, DirectorySector), LAMBDA target :
    IF target.st # "ok" THEN Confused(secs, map)
    ELSE IF target.sector = -1 THEN Out("Abort", "notFound", secs, map)
    ELSE IF ~DirReadable(secs, target.sector) THEN Confused(secs, map)
    ELSE
    Bind(FetchFrom(secs, root, FetchHdr(secs, target.sector)), LAMBDA directory :
      IF ~isRecursive
      THEN [Out("Void", "listed", secs, map) EXCEPT !.out = DirList(directory)]
      ELSE
      Bind(ListRecursively(secs, directory, 0), LAMBDA l :
        IF l.st = "crash" THEN Out("Crash", "cycle", secs, map)
        ELSE IF l.st # "ok" THEN Confused(secs, map)
        ELSE [Out("Void", "listedAll", secs, map) EXCEPT !.out = l.lines]))))

\* ------------------------------------------------------------------ inputs
Names == {"a", "b"}

\* The text "/n1/n2/.../nk" of a sequence of names.
RECURSIVE TextOf(_)
TextOf(names) ==
  IF names = << >> THEN << >>
  ELSE <<"/", Head(names)>> \o TextOf(Tail(names))

\* The root path, every path of one to three of the names a and b, and two
\* paths whose last name is a third one.
Paths ==
  {<<"/">>, TextOf(<<"c">>), TextOf(<<"a", "c">>)}
    \cup {TextOf(<<x>>) : x \in Names}
    \cup {TextOf(<<x, y>>) : x \in Names, y \in Names}
    \cup {TextOf(<<x, y, z>>) : x \in Names, y \in Names, z \in Names}

NamedPaths == Paths \ {<<"/">>}

\* File sizes: empty, part of a sector, more than one sector.
Sizes == {0, 1, SectorSize + 1}

\* ---------------------------------------------------- the open file slot
\* The file ids a system call is given.
OpenFileIds == {0, 1, 2}

\* What a call on the slot leaves: the slot cur and what is returned.  res
\* is "Crash" when the process stops, "Garbage" when the function ends with
\* no return statement; out is the header sector of the file operated on.
Slot(cur, res, why, out) == [cur |-> cur, res |-> res, why |-> why, out |-> out]

\* FileSystem::OpenAFile: the slot is set when Open gives a file.
OpenAFile(secs, map, cur, name) ==
  Bind(Open(secs, map, name), LAMBDA openFile :
    IF openFile.res = "Confused" THEN {}
    ELSE IF openFile.res # "NULL"
    THEN {Slot([ptr |-> "live", sector |-> openFile.out[1]], "1", "opened",
               openFile.out)}
    ELSE {Slot(cur, "0", "notFound", << >>)})

\* FileSystem::Close: delete of the object the slot points to; the slot is
\* not written.  delete of an object already deleted is undefined: it may
\* pass or stop the process.
Close(cur, openFileId) ==
  IF openFileId = 1 /\ cur.ptr # "NULL"
  THEN IF cur.ptr = "live"
       THEN {Slot([cur EXCEPT !.ptr = "deleted"], "1", "deleted", <<cur.sector>>)}
       ELSE {Slot(cur, "1", "deletedTwice", <<cur.sector>>),
             Slot(cur, "Crash", "deletedTwice", <<cur.sector>>)}
  ELSE {Slot(cur, "0", "noFile", << >>)}

\* SysRead and SysWrite: the call on the object the slot points to, and no
\* return statement otherwise.  A call on a deleted object is undefined: it
\* may work on the file the object was opened on or stop the process.
SysAccess(cur, openFileId) ==
  IF openFileId = 1 /\ cur.ptr # "NULL"
  THEN IF cur.ptr = "live"
       THEN {Slot(cur, "Count", "onFile", <<cur.sector>>)}
       ELSE {Slot(cur, "Count", "onDeleted", <<cur.sector>>),
             Slot(cur, "Crash", "onDeleted", <<cur.sector>>)}
  ELSE {Slot(cur, "Garbage", "noFile", << >>)}

SysRead(cur, openFileId) == SysAccess(cur, openFileId)

SysWrite(cur, openFileId) == SysAccess(cur, openFileId)

\* ---------------------------------------------------------------- threads
\* How many threads the kernel holds.
NumThreads == 3

\* The clock kernel->stats->totalTicks moves in steps of TickStep, up to
\* MaxTicks.
TickStep == 1000
MaxTicks == 3000

\* How many calls of the scheduler are followed.
MaxCalls == 5

\* The numbers of scheduler.cc: the priority from which a thread is queued
\* in L2 and in L1, the waiting time that ages a thread, what aging adds,
\* and the limit of a priority with the value a priority at it is set to.
L2Floor == 50
L1Floor == 100
AgingTicks == 1500
AgingBoost == 10
PriorityLimit == 150
TopPriority == 149

Threads == 1 .. NumThreads

\* No thread: the null pointer.
NULL == 0

\* List<T>::Append, List<T>::Front and List<T>::RemoveFront.
ListAppend(list, item) == Append(list, item)

Front(list) == Head(list)

RemoveFront(list) == Tail(list)

\* SortedList<T>::Insert: the item goes before the first element it compares
\* less than, and at the end if there is none.
Insert(list, item, compare) ==
  LET greater == {i \in 1 .. Len(list) : compare[item, list[i]] < 0}
      at == IF greater = {} THEN Len(list) + 1
            ELSE CHOOSE i \in greater : \A j \in greater : i <= j
  IN  SubSeq(list, 1, at - 1) \o <<item>> \o SubSeq(list, at, Len(list))

\* The two orders, over the table thread of the Thread objects.
PriorityCompare(thread) ==
  [t1 \in DOMAIN thread, t2 \in DOMAIN thread |->
     thread[t2].priority - thread[t1].priority]

PredictedRemainingBurstTimeCompare(thread) ==
  [t1 \in DOMAIN thread, t2 \in DOMAIN thread |->
     thread[t1].predictedRemainingBurstTime - thread[t2].predictedRemainingBurstTime]

\* The scheduler before any thread exists.
NoScheduler == [l1Queue |-> << >>, l2Queue |-> << >>, l3Queue |-> << >>,
                thread |-> << >>, totalTicks |-> 0, currentThread |-> NULL,
                nextThread |-> NULL, op |-> "none", calls |-> 0,
                yield |-> "none"]

\* Scheduler::ReadyToRun(thread)
ReadyToRun(k, t) ==
  LET thread == [k.thread EXCEPT ![t].status = "READY",
                                 ![t].lastAgeTick = k.totalTicks]
      set == [k EXCEPT !.thread = thread]
  IN  IF thread[t].priority < L2Floor
      THEN [set EXCEPT !.l3Queue = ListAppend(k.l3Queue, t)]
      ELSE IF thread[t].priority < L1Floor
      THEN [set EXCEPT !.l2Queue =
              Insert(k.l2Queue, t, PriorityCompare(thread))]
      ELSE [set EXCEPT !.l1Queue =
              Insert(k.l1Queue, t,
                     PredictedRemainingBurstTimeCompare(thread))]

\* A search that looks at the queues from L3 up: what C28 rules out.
FindNextToRunLowestFirst(k) ==
  LET t == IF k.l3Queue # << >> THEN Front(k.l3Queue)
           ELSE IF k.l2Queue # << >> THEN Front(k.l2Queue)
           ELSE IF k.l1Queue # << >> THEN Front(k.l1Queue)
           ELSE NULL
      removed == IF k.l3Queue # << >> THEN [k EXCEPT !.l3Queue = RemoveFront(@)]
                 ELSE IF k.l2Queue # << >> THEN [k EXCEPT !.l2Queue = RemoveFront(@)]
                 ELSE IF k.l1Queue # << >> THEN [k EXCEPT !.l1Queue = RemoveFront(@)]
                 ELSE k
  IN  IF t = NULL THEN [k EXCEPT !.nextThread = NULL]
      ELSE [removed EXCEPT
              !.thread[t].totalWaitingTicks =
                 @ + (k.totalTicks - k.thread[t].lastAgeTick),
              !.nextThread = t]

\* Scheduler::FindNextToRun: nextThread is what it returns.
FindNextToRun(k) ==
  LET t == IF k.l1Queue # << >> THEN Front(k.l1Queue)
           ELSE IF k.l2Queue # << >> THEN Front(k.l2Queue)
           ELSE IF k.l3Queue # << >> THEN Front(k.l3Queue)
           ELSE NULL
      removed == IF k.l1Queue # << >> THEN [k EXCEPT !.l1Queue = RemoveFront(@)]
                 ELSE IF k.l2Queue # << >> THEN [k EXCEPT !.l2Queue = RemoveFront(@)]
                 ELSE IF k.l3Queue # << >> THEN [k EXCEPT !.l3Queue = RemoveFront(@)]
                 ELSE k
  IN  IF t = NULL THEN [k EXCEPT !.nextThread = NULL]
      ELSE [removed EXCEPT
              !.thread[t].totalWaitingTicks =
                 @ + (k.totalTicks - k.thread[t].lastAgeTick),
              !.nextThread = t]

\* The first two statements of each loop of AgingProcess: the time waited
\* since the last look is added to the thread.
Waited(k, t) ==
  [k EXCEPT !.thread[t].totalWaitingTicks =
               @ + (k.totalTicks - k.thread[t].lastAgeTick),
            !.thread[t].lastAgeTick = k.totalTicks]

\* The loop over L1 with no limit to the priority: what C30 rules out.
RECURSIVE AgeL1Unlimited(_, _)
AgeL1Unlimited(k, i) ==
  IF i > Len(k.l1Queue) THEN k
  ELSE LET t == k.l1Queue[i]
           w == Waited(k, t)
       IN  IF w.thread[t].totalWaitingTicks >= AgingTicks
           THEN AgeL1Unlimited([w EXCEPT !.thread[t].priority = @ + AgingBoost,
                                         !.thread[t].totalWaitingTicks = @ - AgingTicks],
                               i + 1)
           ELSE AgeL1Unlimited(w, i + 1)

\* The loop of AgingProcess over L1, from element i on.
RECURSIVE AgeL1(_, _)
AgeL1(k, i) ==
  IF i > Len(k.l1Queue) THEN k
  ELSE LET t == k.l1Queue[i]
           w == Waited(k, t)
           newPriority == IF w.thread[t].priority + AgingBoost >= PriorityLimit
                          THEN TopPriority
                          ELSE w.thread[t].priority + AgingBoost
       IN  IF w.thread[t].totalWaitingTicks >= AgingTicks
           THEN AgeL1([w EXCEPT !.thread[t].priority = newPriority,
                                !.thread[t].totalWaitingTicks = @ - AgingTicks],
                      i + 1)
           ELSE AgeL1(w, i + 1)

\* The loop over L2, from element i on: a is the scheduler with the two new
\* queues beside it.
RECURSIVE AgeL2(_, _)
AgeL2(a, i) ==
  IF i > Len(a.k.l2Queue) THEN a
  ELSE LET t == a.k.l2Queue[i]
           w == Waited(a.k, t)
           p == [w EXCEPT !.thread[t].priority = @ + AgingBoost]
           done == [p EXCEPT !.thread[t].totalWaitingTicks = @ - AgingTicks]
       IN  IF w.thread[t].totalWaitingTicks >= AgingTicks
           THEN IF p.thread[t].priority >= L1Floor
                THEN AgeL2([a EXCEPT !.k =
                              [done EXCEPT !.l1Queue =
                                 Insert(p.l1Queue, t,
                                        PredictedRemainingBurstTimeCompare(p.thread))]],
                           i + 1)
                ELSE AgeL2([a EXCEPT !.k = done,
                                     !.newL2Queue =
                                        Insert(a.newL2Queue, t,
                                               PriorityCompare(p.thread))],
                           i + 1)
           ELSE AgeL2([a EXCEPT !.k = w,
                                !.newL2Queue =
                                   Insert(a.newL2Queue, t,
                                          PriorityCompare(w.thread))],
                      i + 1)

\* The loop over L3, from element i on.
RECURSIVE AgeL3(_, _)
AgeL3(a, i) ==
  IF i > Len(a.k.l3Queue) THEN a
  ELSE LET t == a.k.l3Queue[i]
           w == Waited(a.k, t)
           p == [w EXCEPT !.thread[t].priority = @ + AgingBoost]
           done == [p EXCEPT !.thread[t].totalWaitingTicks = @ - AgingTicks]
       IN  IF w.thread[t].totalWaitingTicks >= AgingTicks
           THEN IF p.thread[t].priority >= L2Floor
                THEN AgeL3([a EXCEPT !.k = done,
                                     !.newL2Queue =
                                        Insert(a.newL2Queue, t,
                                               PriorityCompare(p.thread))],
                           i + 1)
                ELSE AgeL3([a EXCEPT !.k = done,
                                     !.newL3Queue = ListAppend(a.newL3Queue, t)],
                           i + 1)
           ELSE AgeL3([a EXCEPT !.k = w,
                                !.newL3Queue = ListAppend(a.newL3Queue, t)],
                      i + 1)

\* An aging that raises the priorities and leaves every thread in the queue
\* it was in: what C29 rules out.
AgingProcessInPlace(k) ==
  LET a == AgeL3(AgeL2([k |-> AgeL1(k, 1), newL2Queue |-> << >>,
                        newL3Queue |-> << >>], 1), 1)
  IN  [a.k EXCEPT !.l1Queue = k.l1Queue, !.l2Queue = k.l2Queue,
                  !.l3Queue = k.l3Queue]

\* An aging that keeps the old L2 in the place of the new one: what C31
\* rules out.
AgingProcessKeepsL2(k) ==
  LET a == AgeL3(AgeL2([k |-> AgeL1(k, 1), newL2Queue |-> << >>,
                        newL3Queue |-> << >>], 1), 1)
  IN  [a.k EXCEPT !.l3Queue = a.newL3Queue]

\* Scheduler::AgingProcess
AgingProcess(k) ==
  LET a == AgeL3(AgeL2([k |-> AgeL1(k, 1), newL2Queue |-> << >>,
                        newL3Queue |-> << >>], 1), 1)
  IN  [a.k EXCEPT !.l2Queue = a.newL2Queue, !.l3Queue = a.newL3Queue]

\* A test that lets a thread of L1 give way to a burst as long as its own:
\* what C32 rules out.
CheckIfYieldToEqual(k) ==
  LET t == k.thread[k.currentThread]
      predictedRemainingBurstTime ==
        t.predictedBurstTime - (k.totalTicks - t.startTick)
  IN  IF k.l1Queue # << >>
      THEN \/ t.priority < L1Floor
           \/ /\ t.priority >= L1Floor
              /\ predictedRemainingBurstTime
                    >= k.thread[Front(k.l1Queue)].predictedRemainingBurstTime
      ELSE IF k.l2Queue # << >> THEN t.priority < L2Floor
      ELSE t.priority < L2Floor /\ k.l3Queue # << >>

\* Scheduler::CheckIfYield: whether the running thread is to give way.
CheckIfYield(k) ==
  LET t == k.thread[k.currentThread]
      predictedRemainingBurstTime ==
        t.predictedBurstTime - (k.totalTicks - t.startTick)
  IN  IF k.l1Queue # << >>
      THEN \/ t.priority < L1Floor
           \/ /\ t.priority >= L1Floor
              /\ predictedRemainingBurstTime
                    > k.thread[Front(k.l1Queue)].predictedRemainingBurstTime
      ELSE IF k.l2Queue # << >> THEN t.priority < L2Floor
      ELSE t.priority < L2Floor /\ k.l3Queue # << >>

\* Scheduler::Run(nextThread, finishing): the thread found takes the
\* processor; a finishing thread is kept in toBeDestroyed and deleted by
\* CheckToBeDestroyed.
Run(k, nextThread, finishing) ==
  LET oldThread == k.currentThread
      switched == [k EXCEPT !.currentThread = nextThread,
                            !.thread[nextThread].status = "RUNNING",
                            !.thread[nextThread].startTick = k.totalTicks,
                            !.nextThread = NULL]
  IN  IF finishing THEN [switched EXCEPT !.thread[oldThread].status = "DELETED"]
      ELSE switched

\* ------------------------------------------------------------------- state
VARIABLES
  sectors,      \* the disk: what each sector holds
  freeMapDisk,  \* the bitmap file: the sectors marked used on disk
  last,         \* the last operation, its result and how many have run
  file,         \* a FileHeader object and the in-memory bitmap it is given
  scheduler,    \* the ready queues, the threads and the clock of the kernel
  currentOpenFile   \* the open file of the system calls

vars == <<sectors, freeMapDisk, last, file, scheduler, currentOpenFile>>

\* No file opened by a system call: the pointer is NULL.  ptr is "NULL",
\* "live" for an OpenFile object, or "deleted" for the address of one that
\* has been deleted; sector is the header sector the object was opened on.
NoOpenFile == [ptr |-> "NULL", sector |-> -1]

\* No FileHeader object outside an operation.
NoFile == [pc |-> "none", bitMap |-> {}, before |-> {}, held |-> {}, size |-> 0,
           hdr |-> ZeroHdr, trail |-> << >>, bad |-> FALSE,
           offset |-> 0, sector |-> -1,
           table |-> << >>, dirFile |-> ZeroHdr, want |-> << >>]

Init ==
  /\ sectors = Format.secs
  /\ freeMapDisk = Format.map
  /\ last = [op |-> "Format", res |-> IF Format.ok THEN "Void" ELSE "Abort",
             why |-> "formatted", bad |-> FALSE, out |-> << >>, n |-> 0]
  /\ file = NoFile
  /\ scheduler = NoScheduler
  /\ currentOpenFile = NoOpenFile

\* The kernel runs operations one at a time, until one stops the process.
Running == last.res \notin {"Abort", "Crash"} /\ last.n < MaxOps

\* What an operation leaves becomes the state of the disk.
Apply(op, out) ==
  /\ out.res # "Confused"
  /\ sectors' = out.secs
  /\ freeMapDisk' = out.map
  /\ last' = [op |-> op, res |-> out.res, why |-> out.why, bad |-> out.bad,
              out |-> out.out, n |-> last.n + 1]
  /\ UNCHANGED <<file, scheduler, currentOpenFile>>

DoCreate(P) ==
  /\ Running
  /\ \E text \in P, size \in Sizes :
       \E out \in {Create(sectors, freeMapDisk, text, size)} : Apply("Create", out)

DoCreateDirectory(P) ==
  /\ Running
  /\ \E text \in P :
       \E out \in {CreateDirectory(sectors, freeMapDisk, text)} :
          Apply("CreateDirectory", out)

DoRemove(P) ==
  /\ Running
  /\ \E text \in P :
       \E out \in {Remove(sectors, freeMapDisk, text)} : Apply("Remove", out)

DoRemoveRecursively(P) ==
  /\ Running
  /\ \E text \in P :
       \E out \in {RemoveRecursively(sectors, freeMapDisk, text)} :
          Apply("RemoveRecursively", out)

Next ==
  \/ DoCreate(Paths)
  \/ DoCreateDirectory(Paths)
  \/ DoRemove(Paths)
  \/ DoRemoveRecursively(Paths)

\* The same operations on the paths of names only.
NextNamed ==
  \/ DoCreate(NamedPaths)
  \/ DoCreateDirectory(NamedPaths)
  \/ DoRemove(NamedPaths)
  \/ DoRemoveRecursively(NamedPaths)

Spec == Init /\ [][Next]_vars

SpecNamed == Init /\ [][NextNamed]_vars

DoOpen(P) ==
  /\ Running
  /\ \E text \in P :
       \E out \in {Open(sectors, freeMapDisk, text)} : Apply("Open", out)

DoList(P) ==
  /\ Running
  /\ \E text \in P, isRecursive \in BOOLEAN :
       \E out \in {List(sectors, freeMapDisk, text, isRecursive)} : Apply("List", out)

\* Every operation of the file system, on every path.
NextAll ==
  \/ DoCreate(Paths)
  \/ DoCreateDirectory(Paths)
  \/ DoRemove(Paths)
  \/ DoRemoveRecursively(Paths)
  \/ DoOpen(Paths)
  \/ DoList(Paths)

SpecAll == Init /\ [][NextAll]_vars

\* ------------------------------------------------------ the format boot
\* FileSystem::FileSystem(format = TRUE) one disk write at a time.  The
\* in-memory bitmap and the two in-memory headers are Format.map,
\* Format.mapHdr and Format.dirHdr from the allocation on; last.why is the
\* step the constructor has completed.
InitFormat ==
  /\ sectors = [s \in Sector |-> ZeroSector]
  /\ freeMapDisk = {}
  /\ last = [op |-> "Format", res |-> "Void", why |-> "start", bad |-> FALSE,
             out |-> << >>, n |-> 0]
  /\ file = NoFile
  /\ scheduler = NoScheduler
  /\ currentOpenFile = NoOpenFile

Formatting(step) == last.op = "Format" /\ last.res = "Void" /\ last.why = step

\* The two Mark calls and the two AllocateMultiLevel calls under ASSERT; an
\* allocation writes the index sectors of its extent, if it has any.
FormatAllocate ==
  /\ Formatting("start")
  /\ IF Format.ok
     THEN /\ last' = [last EXCEPT !.why = "allocated"]
          /\ sectors' = [s \in Sector |->
                           IF s \notin {FreeMapSector, DirectorySector}
                              /\ Format.secs[s].kind = "hdr"
                           THEN Format.secs[s] ELSE sectors[s]]
     ELSE /\ last' = [last EXCEPT !.res = "Abort", !.why = "noSpace"]
          /\ UNCHANGED sectors
  /\ UNCHANGED <<freeMapDisk, file, scheduler, currentOpenFile>>

\* mapHdr->WriteBack(FreeMapSector)
FormatWriteMapHdr ==
  /\ Formatting("allocated")
  /\ sectors' = [sectors EXCEPT ![FreeMapSector] = HdrSector(Format.mapHdr)]
  /\ last' = [last EXCEPT !.why = "mapHdrWritten"]
  /\ UNCHANGED <<freeMapDisk, file, scheduler, currentOpenFile>>

\* dirHdr->WriteBack(DirectorySector)
FormatWriteDirHdr ==
  /\ Formatting("mapHdrWritten")
  /\ sectors' = [sectors EXCEPT ![DirectorySector] = HdrSector(Format.dirHdr)]
  /\ last' = [last EXCEPT !.why = "dirHdrWritten"]
  /\ UNCHANGED <<freeMapDisk, file, scheduler, currentOpenFile>>

\* The two OpenFile constructors, each reading its header off the disk.
FormatOpen ==
  /\ Formatting("dirHdrWritten")
  /\ last' = [last EXCEPT !.why = "opened"]
  /\ UNCHANGED <<sectors, freeMapDisk, file, scheduler, currentOpenFile>>

\* A flush of the bitmap ahead of the headers: what C19 rules out.
FormatWriteBitmapFirst ==
  /\ Formatting("allocated")
  /\ freeMapDisk' = Format.map
  /\ sectors' = [s \in Sector |->
                   IF s \in Range(Format.mapHdr.dataSectors) THEN MapSector
                   ELSE sectors[s]]
  /\ last' = [last EXCEPT !.why = "bitmapWritten"]
  /\ UNCHANGED <<file, scheduler, currentOpenFile>>

\* freeMap->WriteBack(freeMapFile), through the header the handle read.
FormatWriteBitmap ==
  /\ Formatting("opened")
  /\ freeMapDisk' = Format.map
  /\ \E hdr \in {FetchHdr(sectors, FreeMapSector)} :
       sectors' = [s \in Sector |->
                     IF s \in Range(hdr.dataSectors) THEN MapSector ELSE sectors[s]]
  /\ last' = [last EXCEPT !.why = "bitmapWritten"]
  /\ UNCHANGED <<file, scheduler, currentOpenFile>>

\* directory->WriteBack(directoryFile), through the header the handle read.
FormatWriteDirectory ==
  /\ Formatting("bitmapWritten")
  /\ \E hdr \in {FetchHdr(sectors, DirectorySector)} :
       sectors' = WriteBack(sectors, NewTable, hdr)
  /\ last' = [last EXCEPT !.why = "formatted"]
  /\ UNCHANGED <<freeMapDisk, file, scheduler, currentOpenFile>>

\* The constructor has returned: operations are taken from here on.
Booted == last.op # "Format" \/ last.why = "formatted"

NextFormat ==
  \/ FormatAllocate
  \/ FormatWriteMapHdr
  \/ FormatWriteDirHdr
  \/ FormatOpen
  \/ FormatWriteBitmap
  \/ FormatWriteDirectory
  \/ Booted /\ DoCreate(Paths)
  \/ Booted /\ DoCreateDirectory(Paths)
  \/ Booted /\ DoRemove(Paths)
  \/ Booted /\ DoRemoveRecursively(Paths)

SpecFormat == InitFormat /\ [][NextFormat]_vars

\* ------------------------------------------------ Create write by write
\* FileSystem::Create one disk write at a time.  file is the FileHeader hdr
\* of Create with the sector found for it, the in-memory bitmap and directory
\* and the open parent file; file.pc is the write done last; file.want is
\* what Create as one step gives from the same disk.
Idle == file.pc = "none"

\* Create up to the write-backs: the look-ups, FindAndSet, Add and
\* AllocateMultiLevel.  A Create that fails returns here.
CreateBegin ==
  /\ Running /\ Idle
  /\ \E text \in Paths, size \in Sizes :
       \E c \in {Create(sectors, freeMapDisk, text, size)} :
          IF c.res # "TRUE" THEN Apply("Create", c)
          ELSE \E p \in {CreatePlan(sectors, freeMapDisk, text, size)} :
                  /\ file' = [NoFile EXCEPT
                                !.pc = "planned", !.sector = p.sector, !.hdr = p.hdr,
                                !.bitMap = p.bm, !.before = freeMapDisk, !.size = size,
                                !.table = p.table, !.dirFile = p.dirFile,
                                !.want = <<c>>]
                  /\ sectors' = p.secs
                  /\ UNCHANGED <<freeMapDisk, last, scheduler, currentOpenFile>>

\* A flush of the bitmap in the place of the header: what C23 rules out.
CreateWriteBitmapFirst ==
  /\ file.pc = "planned"
  /\ freeMapDisk' = file.bitMap
  /\ file' = [file EXCEPT !.pc = "hdrWritten"]
  /\ UNCHANGED <<sectors, last, scheduler, currentOpenFile>>

\* hdr->WriteBack(sector)
CreateWriteHdr ==
  /\ file.pc = "planned"
  /\ sectors' = [sectors EXCEPT ![file.sector] = HdrSector(file.hdr)]
  /\ file' = [file EXCEPT !.pc = "hdrWritten"]
  /\ UNCHANGED <<freeMapDisk, last, scheduler, currentOpenFile>>

\* directory->WriteBack(dirFile)
CreateWriteDirectory ==
  /\ file.pc = "hdrWritten"
  /\ sectors' = WriteBack(sectors, file.table, file.dirFile)
  /\ file' = [file EXCEPT !.pc = "dirWritten"]
  /\ UNCHANGED <<freeMapDisk, last, scheduler, currentOpenFile>>

\* freeMap->WriteBack(freeMapFile), and the return of TRUE.
CreateWriteBitmap ==
  /\ file.pc = "dirWritten"
  /\ freeMapDisk' = file.bitMap
  /\ file' = NoFile
  /\ last' = [op |-> "Create", res |-> "TRUE", why |-> "created", bad |-> FALSE,
              out |-> << >>, n |-> last.n + 1]
  /\ UNCHANGED <<sectors, scheduler, currentOpenFile>>

NextCreate ==
  \/ CreateBegin
  \/ CreateWriteHdr
  \/ CreateWriteDirectory
  \/ CreateWriteBitmap
  \/ Idle /\ DoCreateDirectory(Paths)
  \/ Idle /\ DoRemove(Paths)
  \/ Idle /\ DoRemoveRecursively(Paths)

SpecCreate == Init /\ [][NextCreate]_vars

\* ------------------------------------------------- the file header alone
\* A new FileHeader, any in-memory bitmap, and a disk of zero sectors.
InitAlloc ==
  /\ sectors = [s \in Sector |-> ZeroSector]
  /\ freeMapDisk = {}
  /\ last = [op |-> "none", res |-> "Void", why |-> "none", bad |-> FALSE,
             out |-> << >>, n |-> 0]
  /\ \E bm \in SUBSET Sector : file = [NoFile EXCEPT !.pc = "new", !.bitMap = bm]
  /\ scheduler = NoScheduler
  /\ currentOpenFile = NoOpenFile

DoAllocateMultiLevel ==
  /\ file.pc = "new"
  /\ \E fileSize \in 0 .. MaxByteLength :
       \E r \in {AllocateMultiLevel(file.bitMap, sectors, fileSize)} :
          /\ sectors' = r.secs
          /\ file' = [file EXCEPT !.pc = IF r.ok THEN "allocated" ELSE "failed",
                                   !.before = file.bitMap, !.bitMap = r.bm,
                                   !.held = r.bm, !.size = fileSize, !.hdr = r.hdr]
  /\ UNCHANGED <<freeMapDisk, last, scheduler, currentOpenFile>>

DoDeallocateMultiLevel ==
  /\ file.pc = "allocated"
  /\ \E d \in {DeallocateMultiLevel(file.bitMap, sectors, file.hdr)} :
       file' = [file EXCEPT !.pc = "freed", !.bitMap = d.bm, !.trail = d.trail,
                            !.bad = d.bad, !.offset = 0, !.sector = -1]
  /\ UNCHANGED <<sectors, freeMapDisk, last, scheduler, currentOpenFile>>

\* FileHeader::ByteToSector on the allocated header, for an offset inside
\* the file.
DoByteToSector ==
  /\ file.pc = "allocated"
  /\ \E offset \in 0 .. (file.size - 1) :
       file' = [file EXCEPT !.offset = offset,
                            !.sector = ByteToSector(sectors, file.hdr, offset, MaxLevel)]
  /\ UNCHANGED <<sectors, freeMapDisk, last, scheduler, currentOpenFile>>

NextAlloc ==
  \/ DoAllocateMultiLevel
  \/ DoDeallocateMultiLevel
  \/ DoByteToSector

SpecAlloc == InitAlloc /\ [][NextAlloc]_vars

\* ---------------------------------------------------- the scheduler alone
\* The priorities threads are made with, below and above each floor and
\* within one boost of it and of the limit.
Priorities == {45, 95, 145}

\* The burst predicted for a thread: two values, the threads taking turns.
Burst(t) == IF t % 2 = 0 THEN 200 ELSE 2000

NewThread(priority, burst) ==
  [status |-> "JUST_CREATED", priority |-> priority,
   predictedBurstTime |-> burst, predictedRemainingBurstTime |-> burst,
   startTick |-> 0, totalWaitingTicks |-> 0, lastAgeTick |-> 0]

\* The main thread runs, the other threads are made and not yet forked; the
\* disk is the formatted one and stays as it is.
InitSched ==
  /\ sectors = Format.secs
  /\ freeMapDisk = Format.map
  /\ last = [op |-> "Format", res |-> IF Format.ok THEN "Void" ELSE "Abort",
             why |-> "formatted", bad |-> FALSE, out |-> << >>, n |-> 0]
  /\ file = NoFile
  /\ currentOpenFile = NoOpenFile
  /\ \E priority \in [Threads -> Priorities] :
       scheduler =
         [NoScheduler EXCEPT
            !.thread = [t \in Threads |->
                          IF t = 1
                          THEN [NewThread(priority[t], Burst(t))
                                  EXCEPT !.status = "RUNNING"]
                          ELSE NewThread(priority[t], Burst(t))],
            !.currentThread = 1]

\* No thread has been found and not yet switched to.
Settled == scheduler.nextThread = NULL

\* The scheduler is followed for MaxCalls calls.
Scheduling == scheduler.calls < MaxCalls

\* The clock moves.
DoTick ==
  /\ scheduler.totalTicks + TickStep <= MaxTicks
  /\ scheduler' = [scheduler EXCEPT !.totalTicks = @ + TickStep, !.op = "Tick",
                                    !.yield = "none"]
  /\ UNCHANGED <<sectors, freeMapDisk, last, file, currentOpenFile>>

\* The running thread blocks: Thread::Sleep, before it looks for the next
\* thread.
DoSleep ==
  /\ Scheduling /\ Settled
  /\ scheduler.thread[scheduler.currentThread].status = "RUNNING"
  /\ scheduler' = [scheduler EXCEPT !.thread[scheduler.currentThread].status = "BLOCKED",
                                    !.op = "Sleep", !.yield = "none", !.calls = @ + 1]
  /\ UNCHANGED <<sectors, freeMapDisk, last, file, currentOpenFile>>

\* ReadyToRun of a forked or woken thread, or of the running thread that
\* yields to the thread found.
DoReadyToRun ==
  /\ Scheduling
  /\ \E t \in Threads :
       /\ \/ scheduler.thread[t].status \in {"JUST_CREATED", "BLOCKED"}
          \/ /\ scheduler.thread[t].status = "RUNNING"
             /\ ~Settled
       /\ scheduler' = [ReadyToRun(scheduler, t) EXCEPT
                          !.op = "ReadyToRun", !.yield = "none", !.calls = @ + 1]
  /\ UNCHANGED <<sectors, freeMapDisk, last, file, currentOpenFile>>

DoFindNextToRun ==
  /\ Scheduling /\ Settled
  /\ scheduler' = [FindNextToRun(scheduler) EXCEPT
                     !.op = "FindNextToRun", !.yield = "none", !.calls = @ + 1]
  /\ UNCHANGED <<sectors, freeMapDisk, last, file, currentOpenFile>>

\* Run of the thread found, once the running thread has yielded or blocked;
\* a thread that finishes has blocked.
DoRun ==
  /\ Scheduling /\ ~Settled
  /\ scheduler.thread[scheduler.currentThread].status # "RUNNING"
  /\ \E finishing \in BOOLEAN :
       /\ finishing =>
            /\ scheduler.thread[scheduler.currentThread].status = "BLOCKED"
            /\ scheduler.nextThread # scheduler.currentThread
       /\ scheduler' = [Run(scheduler, scheduler.nextThread, finishing)
                          EXCEPT !.op = "Run", !.yield = "none", !.calls = @ + 1]
  /\ UNCHANGED <<sectors, freeMapDisk, last, file, currentOpenFile>>

\* AgingProcess, from the timer interrupt.
DoAgingProcess ==
  /\ Scheduling /\ Settled
  /\ scheduler' = [AgingProcess(scheduler) EXCEPT
                     !.op = "AgingProcess", !.yield = "none", !.calls = @ + 1]
  /\ UNCHANGED <<sectors, freeMapDisk, last, file, currentOpenFile>>

\* CheckIfYield, from the timer interrupt: it reads and changes nothing;
\* yield is what it returned.
DoCheckIfYield ==
  /\ Settled
  /\ scheduler' = [scheduler EXCEPT
                     !.op = "CheckIfYield",
                     !.yield = IF CheckIfYield(scheduler) THEN "TRUE" ELSE "FALSE"]
  /\ UNCHANGED <<sectors, freeMapDisk, last, file, currentOpenFile>>

NextSched ==
  \/ DoTick
  \/ DoSleep
  \/ DoReadyToRun
  \/ DoFindNextToRun
  \/ DoRun
  \/ DoAgingProcess
  \/ DoCheckIfYield

SpecSched == InitSched /\ [][NextSched]_vars

\* ------------------------------------------------- what the disk refers to
\* The index and data sectors of the tree under a header, left to right.
RECURSIVE TreeSectors(_, _, _)
TreeSectors(secs, hdr, fuel) ==
  LET n == Min(SlotsUsed(hdr.level, hdr.numBytes), Len(hdr.dataSectors))
      under(s) == IF hdr.level <= 1 \/ fuel = 0 \/ ~IsHdrAt(secs, s) THEN << >>
                  ELSE TreeSectors(secs, FetchHdr(secs, s), fuel - 1)
      RECURSIVE from(_)
      from(i) == IF i > n THEN << >>
                 ELSE <<hdr.dataSectors[i]>> \o under(hdr.dataSectors[i]) \o from(i + 1)
  IN  from(1)

ExtentOf(secs, s) ==
  IF IsHdrAt(secs, s) THEN TreeSectors(secs, FetchHdr(secs, s), MaxLevel) ELSE << >>

\* The table of the directory whose header is in sector s, as on disk.
TableAt(secs, s) ==
  IF DirReadable(secs, s) THEN FetchFrom(secs, NewTable, FetchHdr(secs, s))
  ELSE NewTable

\* The sectors claimed by the entries in use below the directory in sector
\* s: for each entry its header sector, its extent, and, for a directory,
\* what its own entries claim.
RECURSIVE ClaimsBelow(_, _, _)
ClaimsBelow(secs, s, fuel) ==
  LET table == TableAt(secs, s)
      RECURSIVE from(_)
      from(i) ==
        IF i > NumDirEntries THEN << >>
        ELSE IF ~table[i].inUse THEN from(i + 1)
        ELSE <<table[i].sector>> \o ExtentOf(secs, table[i].sector)
             \o (IF table[i].isDirectory /\ fuel > 0
                 THEN ClaimsBelow(secs, table[i].sector, fuel - 1) ELSE << >>)
             \o from(i + 1)
  IN  from(1)

\* Every sector some live structure claims, once per claim.
Claims(secs) ==
  ExtentOf(secs, FreeMapSector) \o ExtentOf(secs, DirectorySector)
    \o ClaimsBelow(secs, DirectorySector, NumSectors)

NoDuplicates(seq) == \A i, j \in DOMAIN seq : i # j => seq[i] # seq[j]

\* The root table as every operation reads it.
RootTable(secs) == FetchFrom(secs, NewTable, directoryFile)

\* The entry a path names when resolved from the root.
Lookup(secs, text) == GetSector(secs, text, RootTable(secs), DirectorySector)

Resolves(secs, text) ==
  \E t \in {Lookup(secs, text)} : t.st = "ok" /\ t.sector # -1

\* The entry record a path of names resolves to, descending through
\* directories only; ZeroEntry when there is none.
RECURSIVE EntryFrom(_, _, _, _)
EntryFrom(secs, table, ap, depth) ==
  LET i == FindIndex(table, ap.name[depth + 1])
  IN  IF i = 0 THEN ZeroEntry
      ELSE IF depth = ap.depth - 1 THEN table[i]
      ELSE IF ~table[i].isDirectory THEN ZeroEntry
      ELSE EntryFrom(secs, TableAt(secs, table[i].sector), ap, depth + 1)

EntryOf(secs, text) ==
  IF text = <<"/">> THEN ZeroEntry ELSE EntryFrom(secs, RootTable(secs), ParsePath(text), 0)

\* The parent of the path is the root or an existing directory, and the
\* table of that directory.
ParentIsDirectory(secs, text) ==
  \/ PathDepth(text) = 1
  \/ LET e == EntryOf(secs, UpperLevelPath(text)) IN e.inUse /\ e.isDirectory

ParentTable(secs, text) ==
  IF PathDepth(text) = 1 THEN RootTable(secs)
  ELSE TableAt(secs, EntryOf(secs, UpperLevelPath(text)).sector)

\* ------------------------------------------------------------------ claims
\* C1: after any sequence of Create, CreateDirectory, Remove and
\* RemoveRecursively a sector is marked used on disk exactly when it is
\* sector 0 or 1 or is claimed by a live structure reachable from the root.
UsedIffReferenced ==
  freeMapDisk = {FreeMapSector, DirectorySector} \cup Range(Claims(sectors))

\* C2: in every reachable state no sector is claimed twice by the live
\* structures reachable from the root.
NoSectorClaimedTwice == NoDuplicates(Claims(sectors))

\* The path of the entry x of the directory d.
Child(d, x) == d \o <<"/", x>>

\* The sectors an extent of this size takes, its header sector included.
SectorsFor(size) == 1 + SectorNeeds(LevelFor(size), size)

\* CreateDirectory(d), Create(d/x, n), RemoveRecursively(d), one after the
\* other on the disk (secs, map).
MakeFillRemove(secs, map, d, x, n) ==
  LET made == CreateDirectory(secs, map, d)
      filled == Create(made.secs, made.map, Child(d, x), n)
      removed == RemoveRecursively(filled.secs, filled.map, d)
  IN  [made |-> made, filled |-> filled, removed |-> removed]

\* The same with a sub-directory d/x holding the file d/x/y, and a second
\* file d/y.
MakeNestRemove(secs, map, d, x, y, n) ==
  LET made == CreateDirectory(secs, map, d)
      sub == CreateDirectory(made.secs, made.map, Child(d, x))
      deep == Create(sub.secs, sub.map, Child(Child(d, x), y), n)
      filled == Create(deep.secs, deep.map, Child(d, y), n)
      removed == RemoveRecursively(filled.secs, filled.map, d)
  IN  [made |-> made, sub |-> sub, deep |-> deep, filled |-> filled,
       removed |-> removed]

Made(r) == r.res = "Void" /\ r.why = "created"

\* C3: CreateDirectory(d), Create(d/f, n), RemoveRecursively(d), with d a new
\* entry of an existing directory, leaves the bitmap file with the used
\* sectors it had before; also with a sub-directory and several children.
CreateThenRemoveRecursivelyRestoresBitmap ==
  \A d \in Paths, x \in Names, n \in Sizes :
     /\ LET r == MakeFillRemove(sectors, freeMapDisk, d, x, n)
        IN  (ParentIsDirectory(sectors, d) /\ Made(r.made) /\ r.filled.res = "TRUE")
              => r.removed.res = "NoValue" /\ r.removed.map = freeMapDisk
     /\ \A y \in Names \ {x} :
          LET r == MakeNestRemove(sectors, freeMapDisk, d, x, y, n)
          IN  (ParentIsDirectory(sectors, d) /\ Made(r.made) /\ Made(r.sub)
                 /\ r.deep.res = "TRUE" /\ r.filled.res = "TRUE")
                => r.removed.res = "NoValue" /\ r.removed.map = freeMapDisk

\* A state from which the sequence of C3 runs and takes sectors on the way,
\* reached by a RemoveRecursively that has removed a directory.
RestoresBitmapWitness ==
  /\ last.op = "RemoveRecursively" /\ last.why = "removedAll"
  /\ \E d \in Paths, x \in Names, n \in Sizes :
       LET r == MakeFillRemove(sectors, freeMapDisk, d, x, n)
       IN  /\ PathDepth(d) > 1
           /\ ParentIsDirectory(sectors, d) /\ Made(r.made) /\ r.filled.res = "TRUE"
           /\ Cardinality(r.filled.map) = Cardinality(freeMapDisk) + 2 + SectorsFor(n)
           /\ n > SectorSize
           /\ r.removed.map = freeMapDisk

\* C4: AllocateMultiLevel, when it succeeds, followed by
\* DeallocateMultiLevel on the same header gives back the bitmap it started
\* from: the sectors cleared are those the allocation claimed, each once,
\* and none was clear when it was cleared.
AllocateThenDeallocateRestores ==
  file.pc = "freed" =>
     /\ file.bitMap = file.before
     /\ ~file.bad
     /\ NoDuplicates(file.trail)
     /\ Range(file.trail) = file.held \ file.before
     /\ Len(file.trail) = SectorNeeds(LevelFor(file.size), file.size)

\* A header of two levels or more, allocated from a bitmap with sectors
\* already taken between the free ones, has been deallocated.
AllocateThenDeallocateWitness ==
  /\ file.pc = "freed" /\ file.hdr.level >= 2
  /\ Len(file.trail) > NumDirect
  /\ \E s \in file.before, t \in Range(file.trail) : t < s

\* C7: AllocateMultiLevel asked for more sectors than the bitmap has clear
\* returns failure, and whenever it fails the in-memory bitmap has the
\* sectors marked that it had before the call.
ExhaustedAllocateReleases ==
  file.pc \in {"allocated", "failed"} =>
     /\ SectorNeeds(LevelFor(file.size), file.size) > NumClear(file.before)
           => file.pc = "failed"
     /\ file.pc = "failed" => file.bitMap = file.before

\* An allocation has failed after it had claimed sectors, on a bitmap that
\* had clear sectors.
ExhaustedAllocateWitness ==
  /\ file.pc = "failed" /\ file.hdr.dataSectors # << >>
  /\ NumClear(file.before) >= 2
  /\ file.bitMap = file.before

\* The sectors that hold directory-entry cells are as they were.
SameTables(before, after) ==
  \A s \in Sector : before[s].kind = "cells" => after[s] = before[s]

\* C5: Create of a path that already resolves to an entry fails whatever the
\* size, and leaves the directory tables and the bitmap file as they were.
CreateExistingFails ==
  \A text \in Paths :
     Resolves(sectors, text) =>
        \A m \in Sizes :
           \A r \in {Create(sectors, freeMapDisk, text, m)} :
              r.res # "Confused" =>
                 r.res = "FALSE" /\ r.map = freeMapDisk /\ SameTables(sectors, r.secs)

\* A Create has failed on an existing path of two names, which the look-up
\* in the parent table misses and Add rejects.
CreateExistingWitness ==
  /\ last.op = "Create" /\ last.res = "FALSE" /\ last.why = "addFailed"
  /\ \E text \in Paths :
       /\ PathDepth(text) = 2 /\ Resolves(sectors, text)
       /\ Create(sectors, freeMapDisk, text, 0).why = "addFailed"

\* C6: whenever Create returns failure, for any cause, the bitmap file and
\* every directory table on disk are as they were before the call.
FailedCreateWritesNothing ==
  [][(last'.op = "Create" /\ last'.res = "FALSE")
       => (freeMapDisk' = freeMapDisk /\ SameTables(sectors, sectors'))]_vars

\* A Create has failed for want of data sectors, after it had taken a header
\* sector and added the entry in memory.
FailedCreateWitness ==
  /\ last.op = "Create" /\ last.res = "FALSE" /\ last.why = "noData"
  /\ NumClear(freeMapDisk) >= 1

\* C8: Create returns TRUE whenever the path does not resolve, its parent
\* directory exists and has a free entry, and the bitmap has the sectors for
\* the header and the extent; the path then names a plain file of that size.
CreateSucceedsUnlessListedCause ==
  \A text \in Paths \ {<<"/">>}, size \in Sizes :
     LET r == Create(sectors, freeMapDisk, text, size)
         e == EntryOf(r.secs, text)
     IN  ( /\ ~Resolves(sectors, text)
           /\ ParentIsDirectory(sectors, text)
           /\ \E i \in 1 .. NumDirEntries : ~ParentTable(sectors, text)[i].inUse
           /\ NumClear(freeMapDisk) >= SectorsFor(size)
           /\ r.res # "Confused" )
         => /\ r.res = "TRUE"
            /\ e.inUse /\ ~e.isDirectory
            /\ IsHdrAt(r.secs, e.sector) /\ FetchHdr(r.secs, e.sector).numBytes = size

\* C9: no call of Create, CreateDirectory, Remove or RemoveRecursively stops
\* the process on an assertion or goes on with the sector number -1.
NoOperationAborts == last.res \notin {"Abort", "Crash"}

\* C10: Remove returns TRUE exactly when the path resolved; after TRUE the
\* path does not resolve and the header sector and the extent of the entry
\* are free on disk; after FALSE, also for a missing intermediate directory,
\* the bitmap file and the directory tables are as they were.
RemoveContract ==
  \A text \in Paths :
     LET r == Remove(sectors, freeMapDisk, text)
         t == Lookup(sectors, text)
     IN  r.res # "Confused" =>
           /\ r.res \in {"TRUE", "FALSE"}
           /\ r.res = "TRUE" <=> Resolves(sectors, text)
           /\ r.res = "TRUE" =>
                /\ ~Resolves(r.secs, text)
                /\ (Range(ExtentOf(sectors, t.sector)) \cup {t.sector}) \cap r.map = {}
           /\ r.res = "FALSE" => r.map = freeMapDisk /\ SameTables(sectors, r.secs)

\* The entry a path names: for "/" the root directory itself, in sector
\* DirectorySector; else what the descent through directories finds.
Named(secs, text) ==
  IF text = <<"/">>
  THEN [inUse |-> TRUE, isDirectory |-> TRUE, name |-> << >>, sector |-> DirectorySector]
  ELSE EntryOf(secs, text)

\* C11: Open is a pure look-up: it hands back a handle on the header sector
\* of the entry the path names, NULL when the path names none, and leaves
\* the bitmap file and every sector of the disk as they were.
OpenIsPureLookup ==
  \A text \in Paths :
     \A r \in {Open(sectors, freeMapDisk, text)}, e \in {Named(sectors, text)} :
        r.res # "Confused" =>
           /\ r.secs = sectors /\ r.map = freeMapDisk
           /\ IF e.inUse THEN r.res = "Handle" /\ r.out = <<e.sector>>
              ELSE r.res = "NULL"

\* C12: the level AllocateMultiLevel chooses is the least k >= 1 whose
\* capacity F^k * SectorSize holds the length; with F = 29 and sectors of
\* 128 bytes, 100 bytes take level 1, 5000 bytes level 2, and 3712 bytes,
\* the capacity of level 1, level 1.
LevelIsMinimal ==
  /\ file.pc \in {"allocated", "failed", "freed"} =>
        /\ file.hdr.level >= 1
        /\ LevelMaxFileSize(file.hdr.level) >= file.size
        /\ file.hdr.level > 1 => LevelMaxFileSize(file.hdr.level - 1) < file.size
  /\ LevelFrom(29, 128, 1, 100) = 1
  /\ LevelFrom(29, 128, 1, 5000) = 2
  /\ LevelFrom(29, 128, 1, 3712) = 1

\* A header of exactly the capacity of level 2 has been allocated at level 2.
LevelIsMinimalWitness ==
  /\ file.pc = "allocated" /\ file.hdr.level = 2
  /\ file.size = LevelMaxFileSize(2)

\* The data sectors below a header, left to right.
RECURSIVE DataSectorsOf(_, _, _)
DataSectorsOf(secs, hdr, fuel) ==
  LET n == Min(SlotsUsed(hdr.level, hdr.numBytes), Len(hdr.dataSectors))
      RECURSIVE from(_)
      from(i) ==
        IF i > n THEN << >>
        ELSE (IF hdr.level <= 1 THEN <<hdr.dataSectors[i]>>
              ELSE IF fuel = 0 \/ ~IsHdrAt(secs, hdr.dataSectors[i]) THEN << >>
              ELSE DataSectorsOf(secs, FetchHdr(secs, hdr.dataSectors[i]), fuel - 1))
             \o from(i + 1)
  IN  from(1)

\* C13: for an allocated header and every offset below its length,
\* ByteToSector gives the data sector of that position: a sector the
\* allocation claimed, no index sector, a different one for every
\* sector-sized piece of the file, and the one an earlier call gave.
ByteToSectorInExtent ==
  file.pc = "allocated" =>
     \A data \in {DataSectorsOf(sectors, file.hdr, MaxLevel)} :
        /\ NoDuplicates(data)
        /\ Len(data) = DivCeil(file.size, SectorSize)
        /\ \A offset \in 0 .. (file.size - 1) :
              \A s \in {ByteToSector(sectors, file.hdr, offset, MaxLevel)} :
                 /\ s \in file.held \ file.before
                 /\ sectors[s].kind # "hdr"
                 /\ s = data[(offset \div SectorSize) + 1]
                 /\ (file.sector # -1 /\ offset = file.offset) => s = file.sector

\* ByteToSector has answered for an offset below the second slot of a header
\* of two levels or more.
ByteToSectorWitness ==
  /\ file.pc = "allocated" /\ file.hdr.level >= 2
  /\ file.sector # -1 /\ file.offset >= SlotBytes(file.hdr.level)
  /\ file.before # {}

\* The directory tables on disk: the table behind every header through which
\* a table can be read.
TablesOnDisk(secs) == {TableAt(secs, s) : s \in {x \in Sector : DirReadable(secs, x)}}

Full(table) == \A i \in 1 .. NumDirEntries : table[i].inUse

HasName(table, name) == \E i \in 1 .. NumDirEntries : table[i].inUse /\ table[i].name = name

\* C14: Add on a table fails and leaves the table as it was when the name is
\* in use in it or no slot is free; otherwise it succeeds, one slot that was
\* free now holds the name, the sector and the kind, every other slot is
\* as before, and the table has the slots it had.
AddContract ==
  \A table \in TablesOnDisk(sectors) :
     \A name \in Names \cup {"c"}, newSector \in {FreeMapSector, NumSectors - 1},
        isDirectory \in BOOLEAN :
        \A r \in {DirAdd(table, name, newSector, isDirectory)} :
           /\ DOMAIN r.table = DOMAIN table
           /\ IF HasName(table, name) \/ Full(table)
              THEN ~r.ok /\ r.table = table
              ELSE /\ r.ok
                   /\ \E i \in 1 .. NumDirEntries :
                         /\ ~table[i].inUse
                         /\ r.table[i] = [inUse |-> TRUE, isDirectory |-> isDirectory,
                                          name |-> name, sector |-> newSector]
                         /\ \A j \in (1 .. NumDirEntries) \ {i} : r.table[j] = table[j]

\* Create has just failed in Add although no table on disk is full: the name
\* was in use in the table Add was called on.
AddContractWitness ==
  /\ last.op = "Create" /\ last.why = "addFailed"
  /\ \A table \in TablesOnDisk(sectors) : ~Full(table)
  /\ \E table \in TablesOnDisk(sectors) : \E name \in Names : HasName(table, name)

\* The header sectors of the directories reachable from the root through
\* entries marked as directories, the root included.
RECURSIVE DirectoriesBelow(_, _, _)
DirectoriesBelow(secs, s, fuel) ==
  {s} \cup
  (IF fuel = 0 THEN {}
   ELSE UNION {DirectoriesBelow(secs, e.sector, fuel - 1) :
                 e \in {x \in Range(TableAt(secs, s)) :
                          x.inUse /\ x.isDirectory /\ x.sector \in Sector}})

Directories(secs) == DirectoriesBelow(secs, DirectorySector, NumSectors)

\* ------------------------------------------ the system calls on the slot
\* What a call on the slot leaves becomes the slot; the disk stays.
ApplySlot(op, o) ==
  /\ currentOpenFile' = o.cur
  /\ last' = [op |-> op, res |-> o.res, why |-> o.why, bad |-> FALSE,
              out |-> o.out, n |-> last.n + 1]
  /\ UNCHANGED <<sectors, freeMapDisk, file, scheduler>>

\* SysOpen
DoOpenAFile(P) ==
  /\ Running
  /\ \E name \in P :
       \E o \in OpenAFile(sectors, freeMapDisk, currentOpenFile, name) :
          ApplySlot("OpenAFile", o)

\* SysClose
DoClose ==
  /\ Running
  /\ \E openFileId \in OpenFileIds :
       \E o \in Close(currentOpenFile, openFileId) : ApplySlot("Close", o)

DoSysRead ==
  /\ Running
  /\ \E openFileId \in OpenFileIds :
       \E o \in SysRead(currentOpenFile, openFileId) : ApplySlot("SysRead", o)

\* The bytes of a file are no part of the disk here: a write into the file of
\* a directory, which would change its table, is not followed.
DoSysWrite ==
  /\ Running
  /\ \E openFileId \in OpenFileIds :
       \E o \in SysWrite(currentOpenFile, openFileId) :
          /\ o.out # << >> => o.out[1] \notin Directories(sectors)
          /\ ApplySlot("SysWrite", o)

\* The file system under the system calls that open, use and close a file.
NextSlot ==
  \/ DoCreate(Paths)
  \/ DoCreateDirectory(Paths)
  \/ DoRemove(Paths)
  \/ DoOpenAFile(Paths)
  \/ DoClose
  \/ DoSysRead
  \/ DoSysWrite

SpecSlot == Init /\ [][NextSlot]_vars

InUse(table) == {i \in 1 .. NumDirEntries : table[i].inUse}

\* C15: whatever Create, CreateDirectory, Remove and RemoveRecursively have
\* run, in the table of every directory the names of the entries in use
\* differ pairwise and at most NumDirEntries entries are in use.
NamesUniqueInTables ==
  \A s \in Directories(sectors) :
     \A table \in {TableAt(sectors, s)} :
        /\ \A i, j \in InUse(table) : i # j => table[i].name # table[j].name
        /\ Cardinality(InUse(table)) <= NumDirEntries
        /\ Len(table) = NumDirEntries

\* The root table is at its capacity and an Add on a table has just been
\* refused.
NamesUniqueWitness ==
  /\ Cardinality(InUse(RootTable(sectors))) = NumDirEntries
  /\ last.why = "addFailed"

\* C16: a path whose parent component names a plain file in use resolves to
\* nothing: the look-up reports not found and does not read the data of the
\* file as a table.
PlainFileIsNoDirectory ==
  \A text \in NamedPaths :
     (PathDepth(text) >= 2
        /\ \E e \in {EntryOf(sectors, UpperLevelPath(text))} : e.inUse /\ ~e.isDirectory)
     => \E t \in {Lookup(sectors, text)} : t.st = "ok" /\ t.sector = -1

\* C17: CreateDirectory of a path that names nothing, below a root or a
\* directory with a free slot, ends with the path naming a directory whose
\* extent is DirectoryFileSize long and whose table is empty, and with every
\* other entry as it was.
CreateDirectoryContract ==
  \A text \in NamedPaths :
     (/\ ~EntryOf(sectors, text).inUse
      /\ ParentIsDirectory(sectors, text)
      /\ ~Full(ParentTable(sectors, text)))
     => \A r \in {CreateDirectory(sectors, freeMapDisk, text)} :
           /\ r.res = "Void"
           /\ \E e \in {EntryOf(r.secs, text)} :
                 /\ e.inUse /\ e.isDirectory
                 /\ IsHdrAt(r.secs, e.sector)
                 /\ FetchHdr(r.secs, e.sector).numBytes = DirectoryFileSize
                 /\ InUse(TableAt(r.secs, e.sector)) = {}
           /\ \A other \in NamedPaths \ {text} :
                 EntryOf(sectors, other).inUse
                   => EntryOf(r.secs, other) = EntryOf(sectors, other)

\* C18: RemoveRecursively always gives TRUE or FALSE; on a plain file it
\* gives what Remove gives and leaves the disk as Remove leaves it; on a
\* directory it gives TRUE, the sectors of every descendant, the extent of
\* the directory and its header sector are free, and the path names nothing.
RemoveRecursivelyContract ==
  \A text \in NamedPaths :
     \A e \in {EntryOf(sectors, text)} :
        \A r \in {RemoveRecursively(sectors, freeMapDisk, text)} :
           /\ r.res \in {"TRUE", "FALSE"}
           /\ (e.inUse /\ ~e.isDirectory) => r = Remove(sectors, freeMapDisk, text)
           /\ (e.inUse /\ e.isDirectory) =>
                 /\ r.res = "TRUE"
                 /\ r.map \cap ({e.sector} \cup Range(ExtentOf(sectors, e.sector))
                                  \cup Range(ClaimsBelow(sectors, e.sector, NumSectors))) = {}
                 /\ ~EntryOf(r.secs, text).inUse

ContentsWritten ==
  freeMapDisk # {} \/ \E s \in Sector : sectors[s].kind \in {"map", "cells"}

HeadersWritten ==
  /\ sectors[FreeMapSector] = HdrSector(freeMapFile)
  /\ sectors[DirectorySector] = HdrSector(directoryFile)

\* C19: when the format has ended the bitmap file marks sector 0, sector 1
\* and the sectors of the two extents and nothing else, the root table has
\* no entry in use, and the disk is the one the operations start from;
\* while it runs nothing of the bitmap or of the table is on disk before both
\* headers are; and the first operation starts from the formatted disk.
FormatContract ==
  /\ [](Formatting("formatted") =>
          /\ freeMapDisk = {FreeMapSector, DirectorySector}
                             \cup Range(ExtentOf(sectors, FreeMapSector))
                             \cup Range(ExtentOf(sectors, DirectorySector))
          /\ InUse(TableAt(sectors, DirectorySector)) = {}
          /\ sectors = Format.secs /\ freeMapDisk = Format.map)
  /\ []((last.op = "Format" /\ ContentsWritten) => HeadersWritten)
  /\ [][(last.op = "Format" /\ last'.op # "Format")
          => (Formatting("formatted") /\ HeadersWritten)]_vars

\* The format has ended with the two headers, the bitmap and the table on
\* disk.
FormatContractWitness ==
  /\ Formatting("formatted") /\ HeadersWritten
  /\ \E s \in Sector : sectors[s].kind = "map"
  /\ freeMapDisk # {}

\* The entries in use below the directory in sector s in pre-order, in table
\* order within a directory, each with its depth below s and its kind.
RECURSIVE PreOrder(_, _, _, _)
PreOrder(secs, s, depth, fuel) ==
  LET table == TableAt(secs, s)
      RECURSIVE from(_)
      from(i) ==
        IF i > NumDirEntries THEN << >>
        ELSE IF ~table[i].inUse THEN from(i + 1)
        ELSE <<Line(depth, IF table[i].isDirectory THEN "[D]" ELSE "[F]", table[i].name)>>
             \o (IF table[i].isDirectory /\ fuel > 0
                 THEN PreOrder(secs, table[i].sector, depth + 1, fuel - 1) ELSE << >>)
             \o from(i + 1)
  IN  from(1)

\* C20: List leaves the bitmap file and every sector as they were; on a
\* directory, with isRecursive, it returns after printing every entry in use
\* below the directory in pre-order, each with its kind and at its depth.
\* With a directory /a alone in the root and a file /a/b alone in it, the
\* listing of / is a as a directory at depth 0, then b as a file at depth 1.
ListIsPreOrder ==
  \A text \in Paths :
     \A e \in {Named(sectors, text)} :
        \A isRecursive \in BOOLEAN :
           \A r \in {List(sectors, freeMapDisk, text, isRecursive)} :
              /\ r.secs = sectors /\ r.map = freeMapDisk
              /\ (isRecursive /\ e.inUse /\ e.isDirectory) =>
                    /\ r.res = "Void"
                    /\ r.out = PreOrder(sectors, e.sector, 0, NumSectors)
                    /\ (/\ text = <<"/">>
                        /\ PreOrder(sectors, DirectorySector, 0, 0) = <<Line(0, "[D]", <<"a">>)>>
                        /\ PreOrder(sectors, EntryOf(sectors, <<"/", "a">>).sector, 0, 0)
                             = <<Line(0, "[F]", <<"b">>)>>)
                       => r.out = <<Line(0, "[D]", <<"a">>), Line(1, "[F]", <<"b">>)>>

ClearedBefore(trail, x, y) ==
  \E i, j \in DOMAIN trail : i < j /\ trail[i] = x /\ trail[j] = y

\* C22: RemoveAll on the table of a directory clears, for every entry in use
\* below it, the header sector and every sector of the extent once, none of
\* them while it is clear, what is below a sub-directory before the extent
\* and the header of the sub-directory, and leaves no sector the entries
\* below the directory claim marked.
RemoveAllIsPostOrder ==
  \A s \in Directories(sectors) :
     \A claimed \in {Range(ClaimsBelow(sectors, s, NumSectors))} :
        \A r \in {RemoveAll(freeMapDisk, sectors, TableAt(sectors, s))} :
           /\ r.st = "ok" /\ ~r.bad
           /\ NoDuplicates(r.trail)
           /\ Range(r.trail) = claimed
           /\ r.bm = freeMapDisk \ claimed
           /\ InUse(r.table) = {}
           /\ \A sub \in DirectoriesBelow(sectors, s, NumSectors) \ {s} :
                 \A x \in Range(ClaimsBelow(sectors, sub, NumSectors)),
                    y \in {sub} \cup Range(ExtentOf(sectors, sub)) :
                    ClearedBefore(r.trail, x, y)

\* The sectors the open parent file of the Create in progress writes to.
ParentSectors(secs) ==
  {ByteToSector(secs, file.dirFile, k, MaxLevel) : k \in 0 .. (TableUnits(file.dirFile) - 1)}

\* C23: a Create that is going to succeed has written nothing to the new
\* header sector, to the parent directory file or to the bitmap file when the
\* header sector, the Add and the extent are settled in memory; a Create that
\* fails writes nothing; then the header is written, then the parent
\* directory, then the bitmap, and the disk is what Create is to leave.
CreateWritesInOrder ==
  /\ [][(Idle /\ file'.pc = "planned") =>
           /\ freeMapDisk' = freeMapDisk
           /\ sectors'[file'.sector] = sectors[file'.sector]
           /\ \A s \in ParentSectors(sectors)' : sectors'[s] = sectors[s]
           /\ file'.sector \notin freeMapDisk /\ file'.sector \in file'.bitMap]_vars
  /\ [][(Idle /\ file'.pc = "none" /\ last'.op = "Create" /\ last'.res # "TRUE")
           => (sectors' = sectors /\ freeMapDisk' = freeMapDisk)]_vars
  /\ [][(~Idle /\ sectors'[file.sector] # sectors[file.sector]
           /\ file.sector \notin ParentSectors(sectors))
           => (file.pc = "planned" /\ freeMapDisk = file.before)]_vars
  /\ [][(~Idle /\ \E s \in ParentSectors(sectors) \ {file.sector} :
                      sectors'[s] # sectors[s])
           => (/\ file.pc = "hdrWritten"
               /\ sectors[file.sector] = HdrSector(file.hdr)
               /\ freeMapDisk = file.before)]_vars
  /\ [][(~Idle /\ freeMapDisk' # freeMapDisk)
           => (/\ file.pc = "dirWritten"
               /\ sectors' = sectors
               /\ sectors = file.want[1].secs
               /\ freeMapDisk' = file.want[1].map)]_vars
  /\ [](file.pc = "dirWritten" =>
          (sectors = file.want[1].secs /\ file.bitMap = file.want[1].map))

\* The three write-backs of a Create below a directory have been made: a
\* header, an entry in the table of the directory, the bitmap.
CreateWritesWitness ==
  /\ Idle /\ last.op = "Create" /\ last.res = "TRUE"
  /\ \E e \in {EntryOf(sectors, TextOf(<<"a", "b">>))} :
        /\ e.inUse /\ ~e.isDirectory
        /\ e.sector \in freeMapDisk
        /\ sectors[e.sector].kind = "hdr"

\* C24: GetUpperLevelSector gives the root sector for a path of depth 1 and
\* otherwise the sector of the entry that the path without its last name
\* resolves to from the root, through directories only, -1 when it resolves
\* to none.
UpperLevelIsParent ==
  \A text \in Paths :
     \A up \in {GetUpperLevelSector(sectors, text, RootTable(sectors), DirectorySector)} :
        IF PathDepth(text) = 1 THEN up.sector = DirectorySector
        ELSE \A e \in {EntryOf(sectors, UpperLevelPath(text))} :
                up.sector = IF e.inUse THEN e.sector ELSE -1

\* The texts of one to three names out of a, b and c.
NameLists ==
  UNION {[1 .. n -> Names \cup {"c"}] : n \in 1 .. 3}

\* C25: the constructor gives the names of a path in order, depth being the
\* number of names; the path "/" has no name, depth 0, and GetSector gives
\* the root sector for it; a path with names starts with a slash.
PathParsing ==
  /\ \A names \in NameLists :
        \A ap \in {ParsePath(TextOf(names))} :
           /\ ap.depth = Len(names)
           /\ \A i \in 1 .. Len(names) : ap.name[i] = <<names[i]>>
  /\ \A text \in Paths :
        ParsePath(text).depth > 0 => text[1] = "/"
  /\ ParsePath(<<"/">>).depth = 0
  /\ \A t \in {GetSector(sectors, <<"/">>, RootTable(sectors), DirectorySector)} :
        t.st = "ok" /\ t.sector = DirectorySector

\* C26: Remove on a table fails and leaves the table as it was when no entry
\* in use has the name; otherwise it succeeds, the entry with the name is no
\* longer in use, every other slot is as it was and where it was, and an Add
\* that follows fills the lowest slot not in use.
DirRemoveContract ==
  \A table \in TablesOnDisk(sectors) :
     \A name \in Names \cup {"c"} :
        \A r \in {DirRemove(table, <<name>>)} :
           IF ~HasName(table, <<name>>) THEN ~r.ok /\ r.table = table
           ELSE /\ r.ok
                /\ ~HasName(r.table, <<name>>)
                /\ \E i \in InUse(table) :
                      /\ table[i].name = <<name>>
                      /\ r.table[i] = [table[i] EXCEPT !.inUse = FALSE]
                      /\ \A j \in (1 .. NumDirEntries) \ {i} : r.table[j] = table[j]
                /\ \A a \in {DirAdd(r.table, <<name>>, NumSectors - 1, TRUE)} :
                      /\ a.ok
                      /\ \E k \in 1 .. NumDirEntries :
                            /\ ~r.table[k].inUse
                            /\ \A j \in 1 .. (k - 1) : r.table[j].inUse
                            /\ a.table[k].inUse /\ a.table[k].name = <<name>>
                            /\ \A j \in (1 .. NumDirEntries) \ {k} : a.table[j] = r.table[j]

\* Remove has taken the first entry out of the root table and the entry
\* after it is still in its slot.
DirRemoveWitness ==
  /\ last.op = "Remove" /\ last.res = "TRUE"
  /\ \E table \in {RootTable(sectors)} :
        /\ ~table[1].inUse /\ table[1].name # << >>
        /\ table[NumDirEntries].inUse

\* C27: whatever Create, CreateDirectory, Remove and RemoveRecursively have
\* run, on whatever path, "/" included, sectors 0 and 1 are marked used in
\* the bitmap file and so is every sector of the extent of the root
\* directory.
RootStaysAllocated ==
  /\ FreeMapSector \in freeMapDisk
  /\ DirectorySector \in freeMapDisk
  /\ Range(directoryFile.dataSectors) \subseteq freeMapDisk

\* ------------------------------------------------------------ C28
\* A step of the scheduler that is the call named.
Called(op) == scheduler'.op = op /\ scheduler'.calls = scheduler.calls + 1

\* The threads of L3 that stay in L3 keep their order, and a thread that
\* comes to L3 stands behind them: L3 is in the order of appending.
L3KeepsOrder ==
  LET old == scheduler.l3Queue
      new == scheduler'.l3Queue
      At(t) == CHOOSE i \in 1 .. Len(old) : old[i] = t
  IN  \A i, j \in 1 .. Len(new) :
         (i < j /\ new[j] \in Range(old)) =>
            /\ new[i] \in Range(old)
            /\ At(new[i]) < At(new[j])

\* What a call of FindNextToRun does.
FindNextToRunStep ==
  LET k == scheduler
      t == scheduler'.nextThread
  IN  /\ (t = NULL) <=> (k.l1Queue = << >> /\ k.l2Queue = << >> /\ k.l3Queue = << >>)
      /\ k.l1Queue # << >> =>
            /\ t = k.l1Queue[1]
            /\ scheduler'.l1Queue = Tail(k.l1Queue)
            /\ scheduler'.l2Queue = k.l2Queue /\ scheduler'.l3Queue = k.l3Queue
            /\ \A u \in Range(k.l1Queue) :
                  k.thread[t].predictedRemainingBurstTime
                     <= k.thread[u].predictedRemainingBurstTime
      /\ (k.l1Queue = << >> /\ k.l2Queue # << >>) =>
            /\ t = k.l2Queue[1]
            /\ scheduler'.l2Queue = Tail(k.l2Queue)
            /\ scheduler'.l1Queue = k.l1Queue /\ scheduler'.l3Queue = k.l3Queue
            /\ \A u \in Range(k.l2Queue) : k.thread[t].priority >= k.thread[u].priority
      /\ (k.l1Queue = << >> /\ k.l2Queue = << >> /\ k.l3Queue # << >>) =>
            /\ t = k.l3Queue[1]
            /\ scheduler'.l3Queue = Tail(k.l3Queue)
            /\ scheduler'.l1Queue = k.l1Queue /\ scheduler'.l2Queue = k.l2Queue

\* C28: FindNextToRun returns NULL exactly when the three queues are empty;
\* otherwise it removes and returns the front of L1, else of L2, else of L3,
\* so no thread of a lower queue is taken while a higher queue holds one; the
\* thread taken from L1 has the smallest predicted remaining burst time of
\* L1, the one taken from L2 the highest priority of L2, and L3 stands in the
\* order its threads were appended, so its front is the earliest.
FindNextToRunContract ==
  [][/\ Called("FindNextToRun") => FindNextToRunStep
     /\ L3KeepsOrder]_vars

\* FindNextToRun has taken from L1 the thread of the shortest burst and left
\* in L1 a thread of a longer one, while L2 or L3 holds a thread.
FindNextToRunWitness ==
  /\ scheduler.op = "FindNextToRun"
  /\ scheduler.nextThread # NULL
  /\ scheduler.l1Queue # << >>
  /\ scheduler.nextThread > scheduler.l1Queue[1]
  /\ scheduler.thread[scheduler.nextThread].predictedRemainingBurstTime
        < scheduler.thread[scheduler.l1Queue[1]].predictedRemainingBurstTime
  /\ scheduler.l2Queue # << >> \/ scheduler.l3Queue # << >>

\* ------------------------------------------------------------ C29
\* How many times a thread stands in a queue.
Times(list, t) == Cardinality({i \in 1 .. Len(list) : list[i] = t})

\* The queue of a priority: 1, 2 or 3.
QueueOf(priority) ==
  IF priority < L2Floor THEN 3 ELSE IF priority < L1Floor THEN 2 ELSE 1

Queued(k) == Range(k.l1Queue) \cup Range(k.l2Queue) \cup Range(k.l3Queue)

\* The waiting time of a queued thread up to now.
Accumulated(k, t) ==
  k.thread[t].totalWaitingTicks + (k.totalTicks - k.thread[t].lastAgeTick)

\* A call of AgingProcess gives each queued thread that has waited AgingTicks
\* its priority and AgingBoost, limited to TopPriority or not, and takes
\* AgingTicks from its waiting time, and leaves the priority of every other
\* thread as it was.
AgingStep(limited) ==
  \A t \in Threads :
     LET before == scheduler.thread[t]
         after == scheduler'.thread[t]
         raised(p) == IF limited THEN Min(p + AgingBoost, TopPriority)
                      ELSE p + AgingBoost
     IN  IF t \in Queued(scheduler) /\ Accumulated(scheduler, t) >= AgingTicks
         THEN /\ after.priority = raised(before.priority)
              /\ after.totalWaitingTicks = Accumulated(scheduler, t) - AgingTicks
         ELSE after.priority = before.priority

NoPriorityAboveTop == \A t \in Threads : scheduler.thread[t].priority <= TopPriority

\* C30 as the specification states it: AgingProcess raises by 10 the
\* priority of each ready thread whose waiting time has reached 1500 ticks
\* and takes 1500 from that time, leaves every other priority unchanged, and
\* no priority ever exceeds 149.
AgingRaisesByBoost ==
  /\ [][Called("AgingProcess") => AgingStep(FALSE)]_vars
  /\ []NoPriorityAboveTop

\* C30, amended: AgingProcess raises the priority of each ready thread whose
\* waiting time has reached 1500 ticks by 10, but to no more than 149, and
\* takes 1500 from that time; it leaves every other priority unchanged, and
\* no priority ever exceeds 149.
AgingRaisesToTop ==
  /\ [][Called("AgingProcess") => AgingStep(TRUE)]_vars
  /\ []NoPriorityAboveTop

\* AgingProcess has raised a thread of L1 to the top priority and, in the
\* same call, brought a thread of L3 to L2.
AgingRaisesWitness ==
  /\ scheduler.op = "AgingProcess"
  /\ \E t \in Range(scheduler.l1Queue) :
        /\ scheduler.thread[t].priority = TopPriority
        /\ scheduler.thread[t].lastAgeTick = scheduler.totalTicks
  /\ \E t \in Range(scheduler.l2Queue) :
        /\ scheduler.thread[t].priority < L2Floor + AgingBoost
        /\ scheduler.thread[t].lastAgeTick = scheduler.totalTicks

\* ------------------------------------------------------------ C31
\* How many times a thread stands in the three queues together.
TimesQueued(k, t) ==
  Times(k.l1Queue, t) + Times(k.l2Queue, t) + Times(k.l3Queue, t)

\* C31: a call of AgingProcess neither loses nor doubles a ready thread: the
\* threads in L1, L2 and L3 together are the same after the call as before
\* it, each standing once, and the threads that stay in L3 keep the order
\* they stood in.
AgingKeepsThreads ==
  [][Called("AgingProcess") =>
       /\ Queued(scheduler') = Queued(scheduler)
       /\ \A t \in Queued(scheduler) :
             TimesQueued(scheduler, t) = 1 /\ TimesQueued(scheduler', t) = 1
       /\ L3KeepsOrder
       /\ Range(scheduler'.l3Queue) \subseteq Range(scheduler.l3Queue)]_vars

\* AgingProcess has brought a thread from L3 to L2 and left two threads in
\* L3.
AgingKeepsWitness ==
  /\ scheduler.op = "AgingProcess"
  /\ Len(scheduler.l3Queue) > 1
  /\ \E t \in Range(scheduler.l2Queue) :
        /\ scheduler.thread[t].priority < L2Floor + AgingBoost
        /\ scheduler.thread[t].lastAgeTick = scheduler.totalTicks
        /\ scheduler.thread[t].totalWaitingTicks < AgingTicks

\* ------------------------------------------------------------ C32
\* The thread on the processor, and the burst it is predicted to have left:
\* its predicted burst less the ticks it has run since it was switched to.
Current == scheduler.thread[scheduler.currentThread]

RemainingOfCurrent ==
  Current.predictedBurstTime - (scheduler.totalTicks - Current.startTick)

\* The cases in which the running thread is to give way.
YieldCases ==
  \/ /\ scheduler.l1Queue # << >>
     /\ \/ Current.priority < L1Floor
        \/ /\ Current.priority >= L1Floor
           /\ RemainingOfCurrent >
                 scheduler.thread[scheduler.l1Queue[1]].predictedRemainingBurstTime
  \/ /\ scheduler.l1Queue = << >> /\ scheduler.l2Queue # << >>
     /\ Current.priority < L2Floor
  \/ /\ scheduler.l1Queue = << >> /\ scheduler.l2Queue = << >>
     /\ scheduler.l3Queue # << >>
     /\ Current.priority < L2Floor

\* C32: CheckIfYield returns true exactly when L1 holds a thread and the
\* running thread has a priority below 100, or one of at least 100 and a
\* predicted remaining burst strictly greater than that of the front of L1;
\* or L1 is empty, L2 holds a thread and the running thread has a priority
\* below 50; or L1 and L2 are empty, L3 holds a thread and the running thread
\* has a priority below 50.  So a running thread of L2 does not give way to
\* a thread of L2, nor a running thread of L1 to a thread of L2 or L3.
CheckIfYieldContract ==
  scheduler.op = "CheckIfYield" =>
     /\ scheduler.yield = "TRUE" <=> YieldCases
     /\ scheduler.yield \in {"TRUE", "FALSE"}
     /\ (Current.priority >= L2Floor /\ scheduler.l1Queue = << >>) =>
           scheduler.yield = "FALSE"

\* CheckIfYield has told a running thread of L1 to give way to the front of
\* L1, a thread of a shorter burst, after the clock has moved.
CheckIfYieldWitness ==
  /\ scheduler.op = "CheckIfYield"
  /\ scheduler.yield = "TRUE"
  /\ Current.priority >= L1Floor
  /\ scheduler.totalTicks > Current.startTick

\* ------------------------------------------------------------ C33
\* OpenAFile gives 1 and sets the slot to the file the path names when it
\* names one, and gives 0 and leaves the slot otherwise.
OpenAFileBinds ==
  \A name \in Paths :
     \A o \in OpenAFile(sectors, freeMapDisk, currentOpenFile, name),
        e \in {Named(sectors, name)} :
        IF e.inUse
        THEN o.res = "1" /\ o.cur = [ptr |-> "live", sector |-> e.sector]
        ELSE o.res = "0" /\ o.cur = currentOpenFile

\* A step that is the call named.
Call(op) == last'.op = op /\ last'.n = last.n + 1

\* With no file open, Close(1) gives 0 and SysRead and SysWrite work on no
\* file.
ClosedStaysClosed ==
  currentOpenFile.ptr # "live" =>
     /\ Call("Close") => last'.res = "0"
     /\ (Call("SysRead") \/ Call("SysWrite")) =>
           last'.res # "Crash" /\ last'.out = << >>

\* C33: the one slot of an open file is opened and closed: OpenAFile gives 1
\* and sets the slot exactly when the path names a file, and 0 otherwise;
\* after a Close(1) that gave 1 the slot is empty, so that a second Close(1)
\* with no OpenAFile giving 1 in between gives 0, and SysRead and SysWrite
\* with id 1 do not work on the closed file.
OpenCloseLifecycle ==
  /\ []OpenAFileBinds
  /\ []((last.op = "Close" /\ last.res = "1") => currentOpenFile = NoOpenFile)
  /\ [][ClosedStaysClosed]_vars

====
